---- MODULE Spec2Model ----
(***************************************************************************)
(* A model of the client-side invocation engine of faast.js (cloudify):    *)
(* the persistent cache (src/src/cache.ts), the log follower and the       *)
(* invocation / shutdown path (src/src/aws/aws-cloudify.ts,                *)
(* src/src/cloudify.ts).  Modules of the repository that the sources       *)
(* import but that are not part of the source tree (funnel, queue, shared) *)
(* are modelled from the specification text and marked as such.            *)
(***************************************************************************)
EXTENDS Integers, Sequences, FiniteSets, TLC

(***************************************************************************)
(* Bounds of the model.                                                    *)
(***************************************************************************)
MaxTime == 2
Expiration == 1
NumWriters == 1
NumReaders == 1
MaxInodes == 2
NumEvents == 3
SafetyWindow == 1
MaxLoops == 2
MaxDeliveries == 2
NumCalls == 2
MaxConcurrentExecutions == 1
MaxCallIds == 3
NumValues == 1
MaxCleanups == 2
MaxPages == 2
MaxGarbage == 2
MaxHours == 2
MaxInstances == 3
MaxAge == 3
MaxRetention == 3
MaxResponses == 3
MaxCountedRetries == 1
MaxPollers == 3
NumTasks == 3
MaxFunnelConcurrency == 2
NumNodes == 2
NumCaches == 3
NumQueuedCalls == 2
MaxMessages == 4
NumExecutions == 3

\* shouldRetry of cloudifyWithResponse: (_, n) => n < 3
RetryLimit == 3

\* CommonOptions.maxRetries, by default
MaxRetries == 2

\* get() resolving with undefined, as a value no sequence of bytes equals
Undefined == <<-1>>
NoStat == -1

(***************************************************************************)
(* PersistentCache: the directory holds one key and, per writer, one       *)
(* uuid-named temporary entry.  A value is a sequence of bytes of length   *)
(* two; writer w stores <<w, w>>, the value in place at Init is <<0, 0>>.  *)
(***************************************************************************)
Writers == 1 .. NumWriters
Readers == 1 .. NumReaders
Inodes == 1 .. MaxInodes
Key == 0
NoInode == 0
ValueOf(w) == <<w, w>>
InitialValue == <<0, 0>>
Values == {InitialValue} \cup {ValueOf(w) : w \in Writers}

VARIABLES
    now,         \* Date.now()
    dirExists,   \* the cache directory exists
    files,       \* directory: entry name -> inode, NoInode when absent
    inodes,      \* inode -> [data, mtime]
    nextInode,   \* next unused inode
    wpc,         \* set(): position of each writer
    wpos,        \* set(): bytes of the value written so far
    wres,        \* set(): "none" | "ok" | "error"
    rpc,         \* get(): position of each reader
    rstat,       \* get(): statEntry.mtimeMs, NoStat when stat failed
    rino,        \* get(): inode opened by readFile
    rbuf,        \* get(): bytes read so far
    rres,        \* get(): the value get() resolved with
    obs          \* history: what the directory held while get() ran

cacheVars == <<now, dirExists, files, inodes, nextInode, wpc, wpos, wres,
               rpc, rstat, rino, rbuf, rres, obs>>

VARIABLES
    lastLogEventTime,  \* logStitcher.lastLogEventTime, the cursor
    eventIds,          \* logStitcher: the recent set of event ids
    logger,            \* state.logger is defined
    loopPc,            \* outputLogs(): position of each polling loop
    reqStart,          \* readLogsRaw(): request.startTime of the current poll
    logCount,          \* history: times each event was given to the logger
    dropped            \* history: events a page repeated and has() filtered out

logVars == <<lastLogEventTime, eventIds, logger, loopPc, reqStart, logCount, dropped>>

VARIABLES
    mode,               \* "queue" when state.queueState is defined, else "https"
    maxConcurrency,     \* callFunnel: the limit, 0 for none
    pendingQueue,       \* callFunnel: the waiters, oldest first
    executing,          \* callFunnel: the admitted tasks that have not finished
    attempt,            \* pushRetry: failures of the task so far
    fut,                \* the promise cloudifyWithResponse returned to the caller
    val,                \* the value a fulfilled promise carries
    err,                \* the error a rejected promise carries
    nextCallId,         \* uuidv4(): the ids handed out so far are below this
    ids,                \* the CallIds of each call's attempts, in issue order
    published,          \* the CallIds sent on the request queue
    callResultsPending, \* queue reconciler: CallId -> awaiting call
    reconciler,         \* queue reconciler: "none", "polling", "draining", "stopped"
    pollers,            \* queue reconciler: the poll fibers that are running
    functionCounters,   \* the aggregate FunctionCounters
    stopPc,             \* stop(): "none", "running", "returned"
    cleanupPc,          \* cleanup(): "none", "running", "returned"
    outstanding,        \* history: the calls pending when stop() was invoked
    rejectedByStop,     \* history: the funnel waiters stop() rejected
    startedAfterStop,   \* history: of those, the ones admitted afterwards
    terminals,          \* history: terminal messages processed per CallId
    first,              \* history: first terminal outcome processed per call
    late                \* history: the call got a later terminal outcome unlike the first

engineVars == <<mode, maxConcurrency, pendingQueue, executing, attempt, fut, val,
                err, nextCallId, ids, published, callResultsPending, reconciler, pollers,
                functionCounters, stopPc, cleanupPc, outstanding, rejectedByStop,
                startedAfterStop, terminals, first, late>>

VARIABLES
    resources,  \* state.resources: the handles of the instance's resources
    cloud,      \* the resources of the instance that exist in the cloud
    deletePc,   \* deleteResources() of cleanup(): "none", "running", "done"
    cleanups    \* the number of times cleanup() was called

cloudVars == <<resources, cloud, deletePc, cleanups>>

VARIABLES
    garbageCollectorRunning,  \* the flag of the module: a run was started
    gcPc,         \* state.gcPromise: "listing", "awaiting", "resolved"
    gcPages,      \* the pages of log groups listed so far
    gcTasks,      \* collectGarbageForLogGroups tasks running in gcFunnel
    gcQueue,      \* deletions pushed to garbageCollectionFunnel, not finished
    clock,        \* the time, in hours since the process started
    lastGcStart,  \* the hour the last garbage collection run started at
    gcRuns,       \* the garbage collection runs started in this process
    instances     \* the instances initialized in this process so far

gcVars == <<garbageCollectorRunning, gcPc, gcPages, gcTasks, gcQueue, clock,
            lastGcStart, gcRuns, instances>>

VARIABLES
    logGroup,         \* a log group the listing returns, and the earlier
                      \* instance it belongs to
    retentionInDays,  \* the retentionInDays option of the collecting instance
    scanned,          \* collectGarbageForLogGroups has seen the log group
    gcIssued          \* the handles a deletion was pushed for

scanVars == <<logGroup, retentionInDays, scanned, gcIssued>>

VARIABLES
    fcounters,  \* functionCounters: aggregate, fIncremental, fAggregate
    fstats,     \* functionStats, the remoteStartLatency series: aggregate,
                \* fIncremental, fAggregate
    prevSkew,   \* this.skew, the decaying average of the estimated skew
    rv,         \* the latencies of the response processResponse returned last
    emitted,    \* per function, the sum of the counters the ticks emitted
    timedCalls, \* the responses with remote timing processed so far
    bypassed,   \* those of them whose own estimate was applied as the skew
    responses,  \* the responses processed so far
    exceptions  \* those of them made up for an exception of callFunction

statsVars == <<fcounters, fstats, prevSkew, rv, emitted, timedCalls, bypassed,
               responses, exceptions>>

VARIABLES
    funnel,    \* a Funnel: maxConcurrency, pendingQueue, the tasks running
    future,    \* per task, the future push returned
    pushed,    \* the tasks in the order they were pushed
    admitted   \* per task, what the funnel admitted it on ("none": not yet)

oneFunnelVars == <<funnel, future, pushed, admitted>>

VARIABLES
    source,  \* deepCopyUndefined: the object graph it reads
    dest,    \* the object graph it writes undefined properties into
    stack,   \* the calls of recurse in progress: d, s and the keys to visit
    copyPc   \* "idle", "running", "returned", "thrown"

copyVars == <<source, dest, stack, copyPc>>

VARIABLES
    initialized,  \* per PersistentCache object, this.initialized: "none" (not
                  \* constructed), "exists", "mkdir" (the call initialize
                  \* awaits), "resolved", "rejected"
    dirSeen       \* per object, what exists(dir) answered

constructVars == <<initialized, dirSeen>>

VARIABLES
    pendingCalls,    \* PendingCall: per callId the entry (deadline, metrics
                     \* series) or NoEntry
    deferredResult,  \* per callId, the future of the call
    queueCounters,   \* completed and errors of the calls
    startSamples,    \* the remoteStartLatency samples recorded
    received,        \* the messages the reconciler has routed
    ignored          \* those of them that found no pending entry

reconcilerVars == <<pendingCalls, deferredResult, queueCounters, startSamples,
                    received, ignored>>

VARIABLES
    useQueue,       \* initialize: the useQueue option
    promises,       \* per provisioning step, its promise: "waiting" (not
                    \* started), "running", "done", "failed"
    provisioned,    \* the resources this initialize has created that exist
    initResources,  \* state.resources: the handles recorded so far
    deleting,       \* deleteResources of the failure cleanup: the handles
                    \* it has yet to delete
    initPc          \* "provisioning", "cleanup", "resolved", "rejected"

provisionVars == <<useQueue, promises, provisioned, initResources, deleting,
                   initPc>>

VARIABLES
    child,     \* ModuleWrapper.child: "none" (undefined) or "running"
    deferred,  \* ModuleWrapper.deferred: the execution whose Deferred it is,
               \* or NoExecution (undefined)
    promise,   \* per execution, the promise execute returned: "none",
               \* "pending", "resolved", "rejected"
    exited,    \* per execution, how the child ended while it was pending
    crashed    \* a listener of the child threw

wrapperVars == <<child, deferred, promise, exited, crashed>>

\* the variables of the components that stand on their own
restVars == <<copyVars, constructVars, reconcilerVars, provisionVars, wrapperVars>>
aloneVars == <<scanVars, statsVars, oneFunnelVars, restVars>>

VARIABLES
    thrown,   \* the error the remote function threw
    errObj,   \* createErrorResponse: the value of the error response
    caught,   \* processResponse: the error the caller's promise rejects with
    errPc     \* "thrown", "responded", "processed"

errorVars == <<thrown, errObj, caught, errPc>>

vars == <<cacheVars, logVars, engineVars, errorVars, cloudVars, gcVars, aloneVars>>

\* the variables of the other components, which a component's steps leave alone
notCache == <<logVars, engineVars, errorVars, cloudVars, gcVars, aloneVars>>
notLogs == <<cacheVars, engineVars, errorVars, cloudVars, gcVars, aloneVars>>
\* stop() clears state.logger, the one variable of the log follower the
\* engine writes
notCalls == <<cacheVars, lastLogEventTime, eventIds, loopPc, reqStart, logCount,
              dropped, errorVars, gcVars, aloneVars>>
\* cleanup() deletes the resources, nothing else of the engine touches them
notEngine == <<notCalls, cloudVars>>
notErrors == <<cacheVars, logVars, engineVars, cloudVars, gcVars, aloneVars>>
notGc == <<cacheVars, logVars, engineVars, errorVars, cloudVars, aloneVars>>
notScan == <<cacheVars, logVars, engineVars, errorVars, cloudVars, gcVars, statsVars,
            oneFunnelVars, restVars>>
notStats == <<cacheVars, logVars, engineVars, errorVars, cloudVars, gcVars, scanVars,
             oneFunnelVars, restVars>>
notOneFunnel == <<cacheVars, logVars, engineVars, errorVars, cloudVars, gcVars,
                 scanVars, statsVars, restVars>>
baseVars == <<cacheVars, logVars, engineVars, errorVars, cloudVars, gcVars,
             scanVars, statsVars, oneFunnelVars>>
notCopy == <<baseVars, constructVars, reconcilerVars, provisionVars, wrapperVars>>
notReconciler == <<baseVars, copyVars, constructVars, provisionVars, wrapperVars>>
notProvision == <<baseVars, copyVars, constructVars, reconcilerVars, wrapperVars>>
notWrapper == <<baseVars, copyVars, constructVars, reconcilerVars, provisionVars>>
notConstruct == <<logVars, engineVars, errorVars, cloudVars, gcVars,
                 scanVars, statsVars, oneFunnelVars, copyVars, reconcilerVars,
                 provisionVars, wrapperVars>>

TmpName(w) == w
Names == {Key} \cup {TmpName(w) : w \in Writers}

\* join(this.dir, uuidv4()): the entry set() writes the value to.
SetTargetDirect(w) == Key
SetTarget(w) == TmpName(w)

\* Date.now() - statEntry.mtimeMs > this.expiration
IsExpiredInclusive(t, mtime) == t - mtime >= Expiration
IsExpired(t, mtime) == t - mtime > Expiration

NoObs == [exists |-> FALSE, age |-> 0, gone |-> FALSE, seen |-> {}]

KeyValue == IF files[Key] = NoInode THEN Undefined ELSE inodes[files[Key]].data

\* A constructed and initialized cache whose directory holds the key, written
\* at time m, or does not hold it.
CacheDirAt(dir, present, m) ==
    /\ now = Expiration
    /\ dirExists = dir
    /\ files = [n \in Names |-> IF n = Key /\ present THEN 1 ELSE NoInode]
    /\ inodes = [i \in Inodes |->
                    IF i = 1 /\ present
                    THEN [data |-> InitialValue, mtime |-> m]
                    ELSE [data |-> <<>>, mtime |-> 0]]
    /\ nextInode = IF present THEN 2 ELSE 1
    /\ wpc = [w \in Writers |-> "idle"]
    /\ wpos = [w \in Writers |-> 0]
    /\ wres = [w \in Writers |-> "none"]
    /\ rpc = [r \in Readers |-> "idle"]
    /\ rstat = [r \in Readers |-> NoStat]
    /\ rino = [r \in Readers |-> NoInode]
    /\ rbuf = [r \in Readers |-> <<>>]
    /\ rres = [r \in Readers |-> Undefined]
    /\ obs = [r \in Readers |-> NoObs]

CacheAt(present, m) == CacheDirAt(TRUE, present, m)

InitCache == \E present \in BOOLEAN, m \in 0 .. Expiration : CacheAt(present, m)

InitCacheIdle == CacheAt(FALSE, 0)


Tick ==
    /\ UNCHANGED notCache
    /\ now < MaxTime
    /\ now' = now + 1
    /\ UNCHANGED <<dirExists, files, inodes, nextInode, wpc, wpos, wres,
                   rpc, rstat, rino, rbuf, rres, obs>>

(***************************************************************************)
(* set(key, value): writeFile(tmpEntry, value) then rename(tmpEntry,       *)
(* entry).  writeFile opens the entry with truncation (creating it when it *)
(* is absent) and then writes the bytes one after the other.               *)
(***************************************************************************)
SetOpen(w) ==
    /\ UNCHANGED notCache
    /\ wpc[w] = "idle"
    /\ wres[w] = "none"
    /\ LET target == SetTarget(w) IN
       IF ~dirExists
       THEN /\ wres' = [wres EXCEPT ![w] = "error"]
            /\ UNCHANGED <<files, inodes, nextInode, wpc>>
       ELSE IF files[target] # NoInode
       THEN /\ inodes' = [inodes EXCEPT ![files[target]] =
                                            [data |-> <<>>, mtime |-> now]]
            /\ wpc' = [wpc EXCEPT ![w] = "writing"]
            /\ UNCHANGED <<files, nextInode, wres>>
       ELSE /\ nextInode <= MaxInodes
            /\ files' = [files EXCEPT ![target] = nextInode]
            /\ inodes' = [inodes EXCEPT ![nextInode] =
                                            [data |-> <<>>, mtime |-> now]]
            /\ nextInode' = nextInode + 1
            /\ wpc' = [wpc EXCEPT ![w] = "writing"]
            /\ UNCHANGED wres
    /\ UNCHANGED <<now, dirExists, wpos, rpc, rstat, rino, rbuf, rres, obs>>

SetWrite(w) ==
    /\ UNCHANGED notCache
    /\ wpc[w] = "writing"
    /\ LET target == SetTarget(w)
           value == ValueOf(w) IN
       IF files[target] = NoInode
       THEN \* the entry was unlinked by clear(): the open descriptor is
            \* still written to, the data is lost with the inode
            /\ wpos' = [wpos EXCEPT ![w] = wpos[w] + 1]
            /\ wpc' = [wpc EXCEPT ![w] =
                          IF wpos[w] + 1 = Len(value) THEN "rename" ELSE "writing"]
            /\ UNCHANGED inodes
       ELSE /\ inodes' = [inodes EXCEPT ![files[target]] =
                             [data |-> Append(@.data, value[wpos[w] + 1]),
                              mtime |-> now]]
            /\ wpos' = [wpos EXCEPT ![w] = wpos[w] + 1]
            /\ wpc' = [wpc EXCEPT ![w] =
                          IF wpos[w] + 1 = Len(value) THEN "rename" ELSE "writing"]
    /\ UNCHANGED <<now, dirExists, files, nextInode, wres,
                   rpc, rstat, rino, rbuf, rres, obs>>

SetRename(w) ==
    /\ UNCHANGED notCache
    /\ wpc[w] = "rename"
    /\ LET target == SetTarget(w) IN
       IF files[target] = NoInode
       THEN /\ wres' = [wres EXCEPT ![w] = "error"]
            /\ UNCHANGED <<files, obs>>
       ELSE /\ files' = [n \in Names |->
                            IF n = Key THEN files[target]
                            ELSE IF n = target THEN NoInode
                            ELSE files[n]]
            /\ wres' = [wres EXCEPT ![w] = "ok"]
            /\ obs' = [r \in Readers |->
                          IF rpc[r] \in {"stat", "open"}
                          THEN [obs[r] EXCEPT
                                   !.seen = @ \cup {inodes[files[target]].data},
                                   !.gone = FALSE]
                          ELSE obs[r]]
    /\ wpc' = [wpc EXCEPT ![w] = "idle"]
    /\ UNCHANGED <<now, dirExists, inodes, nextInode, wpos,
                   rpc, rstat, rino, rbuf, rres>>

(***************************************************************************)
(* get(key): stat(entry), the expiration test, then readFile(entry), which *)
(* opens the entry and reads the inode to its end.                         *)
(***************************************************************************)
GetStart(r) ==
    /\ UNCHANGED notCache
    /\ rpc[r] = "idle"
    /\ rpc' = [rpc EXCEPT ![r] = "stat"]
    /\ rstat' = [rstat EXCEPT ![r] = NoStat]
    /\ rino' = [rino EXCEPT ![r] = NoInode]
    /\ rbuf' = [rbuf EXCEPT ![r] = <<>>]
    /\ rres' = [rres EXCEPT ![r] = Undefined]
    /\ obs' = [obs EXCEPT ![r] =
                  [exists |-> FALSE, age |-> 0, gone |-> FALSE,
                   seen |-> {KeyValue}]]
    /\ UNCHANGED <<now, dirExists, files, inodes, nextInode, wpc, wpos, wres>>

GetStat(r) ==
    /\ UNCHANGED notCache
    /\ rpc[r] = "stat"
    /\ IF files[Key] = NoInode
       THEN /\ rpc' = [rpc EXCEPT ![r] = "done"]
            /\ obs' = [obs EXCEPT ![r].exists = FALSE]
            /\ UNCHANGED rstat
       ELSE LET mtime == inodes[files[Key]].mtime IN
            /\ rstat' = [rstat EXCEPT ![r] = mtime]
            /\ obs' = [obs EXCEPT ![r].exists = TRUE, ![r].age = now - mtime]
            /\ rpc' = [rpc EXCEPT ![r] =
                          IF IsExpired(now, mtime) THEN "done" ELSE "open"]
    /\ UNCHANGED <<now, dirExists, files, inodes, nextInode, wpc, wpos, wres,
                   rino, rbuf, rres>>

GetOpen(r) ==
    /\ UNCHANGED notCache
    /\ rpc[r] = "open"
    /\ IF files[Key] = NoInode
       THEN /\ rpc' = [rpc EXCEPT ![r] = "done"]
            /\ UNCHANGED rino
       ELSE /\ rino' = [rino EXCEPT ![r] = files[Key]]
            /\ rpc' = [rpc EXCEPT ![r] = "read"]
    /\ UNCHANGED <<now, dirExists, files, inodes, nextInode, wpc, wpos, wres,
                   rstat, rbuf, rres, obs>>

GetRead(r) ==
    /\ UNCHANGED notCache
    /\ rpc[r] = "read"
    /\ LET data == inodes[rino[r]].data IN
       IF Len(rbuf[r]) < Len(data)
       THEN /\ rbuf' = [rbuf EXCEPT ![r] = Append(@, data[Len(@) + 1])]
            /\ UNCHANGED <<rpc, rres>>
       ELSE /\ rres' = [rres EXCEPT ![r] = rbuf[r]]
            /\ rpc' = [rpc EXCEPT ![r] = "done"]
            /\ UNCHANGED rbuf
    /\ UNCHANGED <<now, dirExists, files, inodes, nextInode, wpc, wpos, wres,
                   rstat, rino, obs>>

GetStep(r) == GetStart(r) \/ GetStat(r) \/ GetOpen(r) \/ GetRead(r)

(***************************************************************************)
(* clear({leaveEmptyDir}): rmrf(dir), then mkdir when leaveEmptyDir.       *)
(***************************************************************************)
Clear(leaveEmptyDir) ==
    /\ UNCHANGED notCache
    /\ dirExists
    /\ \E n \in Names : files[n] # NoInode
    /\ files' = [n \in Names |-> NoInode]
    /\ dirExists' = leaveEmptyDir
    /\ obs' = [r \in Readers |->
                  IF rpc[r] = "open" THEN [obs[r] EXCEPT !.gone = TRUE] ELSE obs[r]]
    /\ UNCHANGED <<now, inodes, nextInode, wpc, wpos, wres,
                   rpc, rstat, rino, rbuf, rres>>

(***************************************************************************)
(* C7: a get(key) that runs concurrently with a set(key, new), at any      *)
(* interleaving of their file-system steps, resolves with the complete     *)
(* value stored before the set or with the complete new value, never with  *)
(* a prefix or a mixture of bytes: whenever get() resolves with bytes,     *)
(* they are one of the complete values the key held while get() ran.       *)
(***************************************************************************)
C7_GetNeverPartial ==
    \A r \in Readers :
        (rpc[r] = "done" /\ rres[r] # Undefined)
            => (rres[r] \in Values /\ rres[r] \in obs[r].seen)

\* a get() that resolved with the new value of a set() renamed into place
\* after the get() had started on the previous value
C7_Witness ==
    \E r \in Readers, w \in Writers :
        /\ rpc[r] = "done"
        /\ rres[r] = ValueOf(w)
        /\ InitialValue \in obs[r].seen
        /\ wres[w] = "ok"

(***************************************************************************)
(* C8: get(key) resolves with the stored bytes if and only if an entry for *)
(* key exists and now - mtime(key) <= expiration (the entry as its stat     *)
(* found it, and not removed by clear() before readFile opened it); in     *)
(* every other case it resolves with undefined; and no step of get()       *)
(* changes the directory or an entry.                                      *)
(***************************************************************************)
C8_GetResult ==
    \A r \in Readers :
        rpc[r] = "done" =>
            ((rres[r] # Undefined)
                <=> (obs[r].exists /\ obs[r].age <= Expiration /\ ~obs[r].gone))

C8_GetIffFresh ==
    /\ []C8_GetResult
    /\ [][(\E r \in Readers : GetStep(r))
            => UNCHANGED <<dirExists, files, inodes>>]_vars

\* a get() of an entry whose age is exactly the expiration resolved with the
\* stored bytes
C8_Witness ==
    \E r \in Readers :
        /\ rpc[r] = "done"
        /\ obs[r].exists
        /\ obs[r].age = Expiration
        /\ rres[r] = InitialValue

\* a get() of an expired entry resolved with undefined
C8_WitnessExpired ==
    \E r \in Readers :
        /\ rpc[r] = "done"
        /\ obs[r].exists
        /\ obs[r].age > Expiration
        /\ rres[r] = Undefined


(***************************************************************************)
(* The log follower: setLogger / outputLogs / outputCurrentLogs /          *)
(* readLogsRaw of aws-cloudify.ts over the LogStitcher.  The log group     *)
(* holds the events 1 .. NumEvents, event e with timestamp e; one of them  *)
(* carries no message.  filterLogEvents answers a request with any page of *)
(* events not older than the request's startTime; pages of one poll may    *)
(* overlap.                                                                *)
(***************************************************************************)
Events == 1 .. NumEvents
Loops == 1 .. MaxLoops
EventTime(e) == e
HasMessage(e) == e # 2

SetMax(S) == CHOOSE x \in S : \A y \in S : y <= x

\* LogStitcher.has(eventId)
StitcherHas(e) == e \in eventIds

\* LogStitcher.updateEvents: the cursor advances monotonically to the page's
\* largest timestamp minus the safety window
UpdatedCursor(events) ==
    IF events = {} THEN lastLogEventTime
    ELSE LET m == SetMax({EventTime(e) : e \in events}) - SafetyWindow IN
         IF m > lastLogEventTime THEN m ELSE lastLogEventTime

\* LogStitcher.updateEvents: all events of the page are recorded, entries
\* whose timestamp falls before the new cursor are pruned
UpdatedIds(events) ==
    {e \in eventIds \cup events : EventTime(e) >= UpdatedCursor(events)}

\* events.filter(e => !logStitcher.has(e.eventId!))
NewEventsUnfiltered(events) == events
NewEvents(events) == {e \in events : ~StitcherHas(e)}

InitLogs ==
    /\ lastLogEventTime = 0
    /\ eventIds = {}
    /\ logger = FALSE
    /\ loopPc = [l \in Loops |-> "off"]
    /\ reqStart = [l \in Loops |-> 0]
    /\ logCount = [e \in Events |-> 0]
    /\ dropped = {}

\* setLogger(state, logger): a polling loop is started when no logger was
\* set before; it begins its first poll at once when the new logger is
\* defined.  stop() clears the logger the same way.
SetLogger(defined) ==
    /\ UNCHANGED notLogs
    /\ logger' = defined
    /\ IF ~logger /\ defined
       THEN \E l \in Loops :
               /\ loopPc[l] = "off"
               /\ \A k \in Loops : k < l => loopPc[k] # "off"
               /\ loopPc' = [loopPc EXCEPT ![l] = "paging"]
               /\ reqStart' = [reqStart EXCEPT ![l] = lastLogEventTime]
       ELSE UNCHANGED <<loopPc, reqStart>>
    /\ logger # defined
    /\ UNCHANGED <<lastLogEventTime, eventIds, logCount, dropped>>

\* One page of readLogsRaw and the body of outputCurrentLogs run on it: the
\* events has() does not know are yielded and those with a message are given
\* to the logger; then the generator resumes and updateEvents records the
\* page.  When the logger is gone the consumer returns at the first entry,
\* the generator is closed at its yield and the page is not recorded.
ReadLogsPage(l, events, nextToken) ==
    /\ UNCHANGED notLogs
    /\ loopPc[l] = "paging"
    /\ \A e \in events : EventTime(e) >= reqStart[l]
    /\ LET newEvents == NewEvents(events)
           entries == {e \in newEvents : HasMessage(e)} IN
       IF entries # {} /\ ~logger
       THEN /\ loopPc' = [loopPc EXCEPT ![l] = "off"]
            /\ UNCHANGED <<lastLogEventTime, eventIds, logCount, dropped>>
       ELSE /\ \A e \in entries : logCount[e] < MaxDeliveries
            /\ logCount' = [e \in Events |->
                               IF e \in entries THEN logCount[e] + 1 ELSE logCount[e]]
            /\ dropped' = dropped \cup (events \ newEvents)
            /\ lastLogEventTime' = UpdatedCursor(events)
            /\ eventIds' = UpdatedIds(events)
            /\ loopPc' = [loopPc EXCEPT ![l] =
                             IF nextToken THEN "paging"
                             ELSE IF logger THEN "sleep" ELSE "off"]
    /\ UNCHANGED <<logger, reqStart>>

\* filterLogEvents rejects: outputLogs swallows the error
ReadLogsError(l) ==
    /\ UNCHANGED notLogs
    /\ loopPc[l] = "paging"
    /\ loopPc' = [loopPc EXCEPT ![l] = IF logger THEN "sleep" ELSE "off"]
    /\ UNCHANGED <<lastLogEventTime, eventIds, logger, reqStart, logCount, dropped>>

\* outputLogs after its sleep: while (state.logger) the next poll starts,
\* with request.startTime read from the stitcher
OutputLogsWake(l) ==
    /\ UNCHANGED notLogs
    /\ loopPc[l] = "sleep"
    /\ IF logger
       THEN /\ loopPc' = [loopPc EXCEPT ![l] = "paging"]
            /\ reqStart' = [reqStart EXCEPT ![l] = lastLogEventTime]
       ELSE /\ loopPc' = [loopPc EXCEPT ![l] = "off"]
            /\ UNCHANGED reqStart
    /\ UNCHANGED <<lastLogEventTime, eventIds, logger, logCount, dropped>>

(***************************************************************************)
(* C9: for any sequence of paged, possibly overlapping pages, each        *)
(* distinct eventId is passed on to the logger at most once.               *)
(***************************************************************************)
C9_EachEventAtMostOnce == \A e \in Events : logCount[e] <= 1

(***************************************************************************)
(* What readLogsRaw does keep: each distinct eventId whose timestamp is    *)
(* not before the stitcher's cursor (lastLogEventTime) is passed on once;  *)
(* an event is passed on a second time only after the cursor has moved     *)
(* past its timestamp, which pruned its id from the recent set.            *)
(***************************************************************************)
C9_AtMostOnceFromCursor ==
    \A e \in Events : logCount[e] > 1 => EventTime(e) < lastLogEventTime

\* an event that was given to the logger once, came again in an overlapping
\* page and was filtered out
C9_Witness ==
    \E e \in Events : e \in dropped /\ logCount[e] = 1 /\ e \in eventIds

(***************************************************************************)
(* The invocation engine: cloudifyWithResponse issues calls either through *)
(* the call funnel and lambda.invoke (https) or through the request queue  *)
(* and the reconciler (queue); stop() and cleanup() end the instance.      *)
(***************************************************************************)
Calls == 1 .. NumCalls
CallIds == 1 .. MaxCallIds
NoCall == 0
ReturnValues == 1 .. NumValues
CancelError == "Rejected pending request"

NoOutcome == [kind |-> "none", value |-> 0]
Returned(v) == [kind |-> "returned", value |-> v]
ErrorOutcome(kind) == [kind |-> kind, value |-> 0]
\* what lambda.invoke resolves with: a payload or a FunctionError
HttpsOutcomes == {Returned(v) : v \in ReturnValues} \cup {ErrorOutcome("error")}
\* the messages of the response queue that end a call
TerminalMessages == HttpsOutcomes \cup {ErrorOutcome("deadletter")}
Messages ==
    TerminalMessages \cup {ErrorOutcome("functionstarted"), ErrorOutcome("cpumetrics")}

funnelVars == <<maxConcurrency, pendingQueue, executing, attempt, startedAfterStop>>
futVars == <<fut, val, err>>
idVars == <<nextCallId, ids>>
queueVars == <<published, callResultsPending, reconciler, pollers>>
messageHistory == <<terminals, first, late>>
lifecycleVars == <<stopPc, cleanupPc, outstanding, rejectedByStop>>

Min(a, b) == IF a < b THEN a ELSE b

\* const CallId = uuidv4(): an id no earlier call of uuidv4 returned
FreshCallIdRepeated == (nextCallId % 2) + 1
FreshCallId == nextCallId

\* fcounters.incr(fn, key)
Incr(counters, key) == [counters EXCEPT ![key] = @ + 1]

\* the end of processResponse: one of errors and completed is counted
ProcessResponseNoElse(counters, isError) ==
    Incr(IF isError THEN Incr(counters, "errors") ELSE counters, "completed")
ProcessResponse(counters, isError) ==
    IF isError THEN Incr(counters, "errors") ELSE Incr(counters, "completed")

\* processResponse for n calls that ended with an error
RECURSIVE ProcessResponses(_, _)
ProcessResponses(counters, n) ==
    IF n = 0 THEN counters
    ELSE ProcessResponses(ProcessResponse(counters, TRUE), n - 1)

\* an attempt is sent to the cloud function
CountInvocation(counters) == Incr(counters, "invocations")

\* shouldRetry of cloudifyWithResponse, after it has counted the retry
ShouldRetry(n) == n < RetryLimit

\* Funnel: how many of `waiting` waiters a funnel running `running` tasks
\* admits under `limit` (0: no limit)
AdmitCountOneShort(waiting, running, limit) ==
    IF limit = 0 THEN waiting
    ELSE IF running + 1 < limit THEN Min(waiting, limit - 1 - running) ELSE 0
AdmitCountOnePast(waiting, running, limit) ==
    IF limit = 0 THEN waiting
    ELSE IF running <= limit THEN Min(waiting, limit + 1 - running) ELSE 0
AdmitCount(waiting, running, limit) ==
    IF limit = 0 THEN waiting
    ELSE IF running < limit THEN Min(waiting, limit - running) ELSE 0

\* Funnel: the waiters admitted, oldest first, and the ones left waiting
AdmittedNewestFirst(q, running, limit) ==
    {q[Len(q) + 1 - i] : i \in 1 .. AdmitCount(Len(q), Cardinality(running), limit)}
Admitted(q, running, limit) ==
    {q[i] : i \in 1 .. AdmitCount(Len(q), Cardinality(running), limit)}
StillWaiting(q, running, limit) ==
    SubSeq(q, AdmitCount(Len(q), Cardinality(running), limit) + 1, Len(q))

\* Funnel.pendingFutures(): the futures of the waiters
PendingFutures == {pendingQueue[i] : i \in DOMAIN pendingQueue}

\* Deferred: settling has an effect on a promise that is still pending
ResolvesAlways(state) == state # "none"
Resolves(state) == state = "pending"

\* Funnel: admit waiters while there is capacity under the (new) limit; an
\* admitted task issues lambda.invoke for the first time
DoWork(q, running) ==
    LET started == Admitted(q, running, maxConcurrency') IN
    /\ pendingQueue' = StillWaiting(q, running, maxConcurrency')
    /\ executing' = running \cup started
    /\ attempt' = [c \in Calls |-> IF c \in started THEN 0 ELSE attempt[c]]
    /\ startedAfterStop' = startedAfterStop \cup (started \cap rejectedByStop)

\* the promise of call c settles with the outcome
Settle(c, outcome) ==
    /\ fut' = [fut EXCEPT ![c] =
                 IF outcome.kind = "returned" THEN "fulfilled" ELSE "rejected"]
    /\ val' = [val EXCEPT ![c] = outcome.value]
    /\ err' = [err EXCEPT ![c] =
                 IF outcome.kind = "returned" THEN "none" ELSE outcome.kind]

InitEngine(m) ==
    /\ mode = m
    /\ maxConcurrency = 0
    /\ pendingQueue = <<>>
    /\ executing = {}
    /\ attempt = [c \in Calls |-> 0]
    /\ fut = [c \in Calls |-> "none"]
    /\ val = [c \in Calls |-> 0]
    /\ err = [c \in Calls |-> "none"]
    /\ nextCallId = 1
    /\ ids = [c \in Calls |-> <<>>]
    /\ published = {}
    /\ callResultsPending = [id \in CallIds |-> NoCall]
    /\ reconciler = IF m = "queue" THEN "polling" ELSE "none"
    /\ functionCounters = [invocations |-> 0, completed |-> 0, retries |-> 0,
                           errors |-> 0]
    /\ stopPc = "none"
    /\ cleanupPc = "none"
    /\ outstanding = {}
    /\ rejectedByStop = {}
    /\ startedAfterStop = {}
    /\ terminals = [id \in CallIds |-> 0]
    /\ first = [c \in Calls |-> NoOutcome]
    /\ late = [c \in Calls |-> FALSE]

\* callFunctionHttps: serializeCall throws on arguments JSON cannot carry;
\* otherwise the invocation is pushed on the call funnel
CallFunctionHttps(c, lossy) ==
    /\ UNCHANGED <<maxConcurrency, queueVars>>
    /\ IF lossy
       THEN /\ Settle(c, ErrorOutcome("serialization"))
            /\ functionCounters' =
                   ProcessResponse(CountInvocation(functionCounters), TRUE)
            /\ UNCHANGED <<pendingQueue, executing, attempt, startedAfterStop>>
       ELSE /\ fut' = [fut EXCEPT ![c] = "pending"]
            /\ functionCounters' = CountInvocation(functionCounters)
            /\ DoWork(Append(pendingQueue, c), executing)
            /\ UNCHANGED <<val, err>>

\* cloudqueue.enqueueCallRequest: the call is registered under its CallId
\* and published; after stop() no call is accepted
EnqueueCallRequest(c, id) ==
    /\ UNCHANGED <<funnelVars, reconciler, pollers>>
    /\ IF stopPc # "none"
       THEN /\ Settle(c, ErrorOutcome(CancelError))
            /\ functionCounters' =
                   ProcessResponse(CountInvocation(functionCounters), TRUE)
            /\ UNCHANGED <<published, callResultsPending>>
       ELSE /\ fut' = [fut EXCEPT ![c] = "pending"]
            /\ functionCounters' = CountInvocation(functionCounters)
            /\ published' = published \cup {id}
            /\ callResultsPending' = [callResultsPending EXCEPT ![id] = c]
            /\ UNCHANGED <<val, err>>

\* cloudifyWithResponse: a call of a cloudified function
Invoke(c, lossy) ==
    /\ fut[c] = "none"
    /\ nextCallId <= MaxCallIds
    /\ UNCHANGED <<notEngine, logger, mode, messageHistory, lifecycleVars>>
    /\ ids' = [ids EXCEPT ![c] = <<FreshCallId>>]
    /\ nextCallId' = nextCallId + 1
    /\ IF mode = "queue"
       THEN EnqueueCallRequest(c, FreshCallId)
       ELSE CallFunctionHttps(c, lossy)

\* awsRequest.promise() rejects on a transport failure; an error of the
\* remote function comes in a response that resolves it (FunctionError or
\* a returned value of type "error")
InvokeThrowsOnError(kind) == kind \in {"transport", "error"}
InvokeThrows(kind) == kind = "transport"

\* the task of pushRetry fails: shouldRetry is asked, which counts a retry;
\* the task is reissued without leaving the funnel, or it fails for good
PushRetryFailure(c, kind) ==
    IF ShouldRetry(attempt[c])
    THEN /\ attempt' = [attempt EXCEPT ![c] = @ + 1]
         /\ functionCounters' =
                CountInvocation(Incr(functionCounters, "retries"))
         /\ UNCHANGED <<pendingQueue, executing, startedAfterStop, futVars>>
    ELSE /\ DoWork(pendingQueue, executing \ {c})
         /\ IF Resolves(fut[c])
            THEN /\ Settle(c, ErrorOutcome(kind))
                 /\ functionCounters' =
                        ProcessResponse(Incr(functionCounters, "retries"), TRUE)
            ELSE /\ functionCounters' = Incr(functionCounters, "retries")
                 /\ UNCHANGED futVars

\* lambda.invoke resolves: the task leaves the funnel, which admits the
\* oldest waiter, and processResponse ends the call
HttpsResolve(c, outcome) ==
    /\ c \in executing
    /\ UNCHANGED <<notEngine, logger, mode, maxConcurrency, idVars, queueVars,
                   messageHistory, lifecycleVars>>
    /\ IF InvokeThrows(outcome.kind)
       THEN PushRetryFailure(c, outcome.kind)
       ELSE /\ DoWork(pendingQueue, executing \ {c})
            /\ IF Resolves(fut[c])
               THEN /\ Settle(c, outcome)
                    /\ functionCounters' =
                           ProcessResponse(functionCounters,
                                           outcome.kind # "returned")
               ELSE UNCHANGED <<futVars, functionCounters>>

\* lambda.invoke rejects with a transport error
HttpsReject(c) ==
    /\ c \in executing
    /\ UNCHANGED <<notEngine, logger, mode, maxConcurrency, idVars, queueVars,
                   messageHistory, lifecycleVars>>
    /\ PushRetryFailure(c, "transport")

\* setConcurrency: callFunnel.setMaxConcurrency(n)
SetConcurrency(n) ==
    /\ maxConcurrency' = n
    /\ DoWork(pendingQueue, executing)
    /\ UNCHANGED <<notEngine, logger, mode, futVars, idVars, queueVars,
                   functionCounters, messageHistory, lifecycleVars>>

\* the resources of an instance: the function and the cached role, the
\* request topic, its subscription and the response queue in queue mode,
\* the uploaded code object when the code was packaged through S3
EphemeralKinds == {"function", "subscription", "topic", "queue", "code"}
OwnResources(m, packaged) ==
    {"function", "role"}
       \cup (IF m = "queue" THEN {"subscription", "topic", "queue"} ELSE {})
       \cup (IF packaged THEN {"code"} ELSE {})

\* deleteResources: what it deletes of the handles it is given; the cached
\* role is kept
DeletedButQueue(handles) == handles \cap {"subscription", "function", "topic", "code"}
Deleted(handles) ==
    handles \cap {"subscription", "function", "topic", "queue", "code"}

InitCloud(m, packaged) ==
    /\ resources = OwnResources(m, packaged)
    /\ cloud = OwnResources(m, packaged)
    /\ deletePc = "none"
    /\ cleanups = 0

\* stop(), up to its first await: the logger is cleared, the funnel's
\* waiters are rejected (they stay in the funnel), the reconciler rejects
\* the calls it awaits and is told to drain.  cleanup() begins with stop()
\* and starts deleteResources(), whatever options it is called with.
Stop(fromCleanup, deleteResources) ==
    /\ stopPc # "running"
    /\ cleanupPc # "running"
    /\ IF fromCleanup THEN cleanups < MaxCleanups
       ELSE stopPc = "none" /\ cleanupPc = "none"
    /\ UNCHANGED <<notCalls, mode, funnelVars, idVars, published, pollers,
                   messageHistory, resources, cloud>>
    /\ logger' = FALSE
    /\ stopPc' = "running"
    /\ cleanupPc' = IF fromCleanup THEN "running" ELSE cleanupPc
    /\ deletePc' = IF fromCleanup THEN "running" ELSE deletePc
    /\ cleanups' = IF fromCleanup THEN cleanups + 1 ELSE cleanups
    /\ outstanding' = IF fromCleanup THEN {c \in Calls : fut[c] = "pending"}
                      ELSE outstanding
    /\ rejectedByStop' = rejectedByStop \cup PendingFutures
    /\ LET awaited == {callResultsPending[id] : id \in CallIds} \ {NoCall}
           cancelled == {c \in PendingFutures \cup awaited : Resolves(fut[c])}
       IN /\ fut' = [c \in Calls |-> IF c \in cancelled THEN "rejected" ELSE fut[c]]
          /\ err' = [c \in Calls |-> IF c \in cancelled THEN CancelError ELSE err[c]]
          /\ functionCounters' =
                 ProcessResponses(functionCounters, Cardinality(cancelled))
    /\ callResultsPending' = [id \in CallIds |-> NoCall]
    /\ reconciler' = IF reconciler = "polling" THEN "draining" ELSE reconciler
    /\ UNCHANGED val

\* the reconciler keeps at least this many poll fibers
MinPollers == 2

\* the poll fibers of a new reconciler
InitPollers(n) == pollers = IF mode = "queue" THEN n ELSE 0

\* the reconciler is stopped when no poll fiber is left
DrainedAtFirstExit(n) == TRUE
Drained(n) == n = 0

\* a poll fiber of the reconciler observes the stop message and exits
ReconcilerStop ==
    /\ reconciler = "draining"
    /\ pollers > 0
    /\ pollers' = pollers - 1
    /\ reconciler' = IF Drained(pollers - 1) THEN "stopped" ELSE "draining"
    /\ UNCHANGED <<notEngine, logger, mode, funnelVars, futVars, idVars, published,
                   callResultsPending, functionCounters, messageHistory,
                   lifecycleVars>>

\* stop() returns once cloudqueue.stop has and state.gcPromise is resolved
StopReturn ==
    /\ stopPc = "running"
    /\ mode = "queue" => reconciler = "stopped"
    /\ gcPc = "resolved"
    /\ stopPc' = "returned"
    /\ UNCHANGED <<notEngine, logger, mode, funnelVars, futVars, idVars, queueVars,
                   functionCounters, messageHistory, cleanupPc, outstanding,
                   rejectedByStop>>

\* await state.gcPromise throws in stop(): stop() rejects, and so does the
\* cleanup() that awaits it, whatever deleteResources is doing
StopRejects ==
    /\ stopPc = "running"
    /\ mode = "queue" => reconciler = "stopped"
    /\ gcPc = "rejected"
    /\ stopPc' = "rejected"
    /\ cleanupPc' = IF cleanupPc = "running" THEN "rejected" ELSE cleanupPc
    /\ UNCHANGED <<notEngine, logger, mode, funnelVars, futVars, idVars, queueVars,
                   functionCounters, messageHistory, outstanding, rejectedByStop>>

\* deleteResources(state.resources, state.services) of cleanup(): each
\* resource with a handle is deleted, errors are ignored
DeleteResources ==
    /\ deletePc = "running"
    /\ cloud' = cloud \ Deleted(resources)
    /\ deletePc' = "done"
    /\ UNCHANGED <<notCalls, engineVars, logger, resources, cleanups>>

\* cleanup() returns once stop() has and the resources are deleted
CleanupReturn ==
    /\ cleanupPc = "running"
    /\ stopPc = "returned"
    /\ deletePc = "done"
    /\ cleanupPc' = "returned"
    /\ UNCHANGED <<notEngine, logger, mode, funnelVars, futVars, idVars, queueVars,
                   functionCounters, messageHistory, stopPc, outstanding,
                   rejectedByStop>>

\* the call a response for CallId id is about
Owner(id) ==
    IF callResultsPending[id] # NoCall THEN callResultsPending[id]
    ELSE CHOOSE c \in Calls : \E i \in DOMAIN ids[c] : ids[c][i] = id

\* the error kinds a new attempt is made for: a dead letter and an error
\* of the remote function are not among them
IsTransientOrDeadLetter(kind) == kind \in {"transport", "deadletter"}
IsTransient(kind) == kind \in {"transport"}

\* the reconciler makes a new attempt for the call awaited under id
RetriesInQueue(id, m) ==
    /\ callResultsPending[id] # NoCall
    /\ Resolves(fut[callResultsPending[id]])
    /\ IsTransient(m.kind)
    /\ ShouldRetry(Len(ids[callResultsPending[id]]) - 1)
    /\ nextCallId <= MaxCallIds

\* the reconciler receives a message for a published CallId: a terminal one
\* completes the call awaited under the id and removes the entry
ReceiveMessage(id, m) ==
    /\ reconciler \in {"polling", "draining"}
    /\ id \in published
    /\ UNCHANGED <<notEngine, logger, mode, funnelVars, reconciler, pollers,
                   lifecycleVars>>
    /\ IF m \in TerminalMessages
       THEN /\ terminals[id] < 2
            /\ terminals' = [terminals EXCEPT ![id] = @ + 1]
            /\ first' = [first EXCEPT ![Owner(id)] = IF @ = NoOutcome THEN m ELSE @]
            /\ late' = [late EXCEPT ![Owner(id)] =
                           @ \/ (first[Owner(id)] # NoOutcome /\ first[Owner(id)] # m)]
            /\ IF RetriesInQueue(id, m)
               THEN /\ ids' = [ids EXCEPT ![callResultsPending[id]] =
                                  Append(@, FreshCallId)]
                    /\ nextCallId' = nextCallId + 1
                    /\ published' = published \cup {FreshCallId}
                    /\ callResultsPending' =
                           [callResultsPending EXCEPT
                               ![id] = NoCall,
                               ![FreshCallId] = callResultsPending[id]]
                    /\ functionCounters' =
                           CountInvocation(Incr(functionCounters, "retries"))
                    /\ UNCHANGED futVars
               ELSE /\ callResultsPending' =
                           [callResultsPending EXCEPT ![id] = NoCall]
                    /\ UNCHANGED <<idVars, published>>
                    /\ IF /\ callResultsPending[id] # NoCall
                          /\ Resolves(fut[callResultsPending[id]])
                       THEN /\ Settle(callResultsPending[id], m)
                            /\ functionCounters' =
                                   ProcessResponse(functionCounters,
                                                   m.kind # "returned")
                       ELSE UNCHANGED <<futVars, functionCounters>>
       ELSE UNCHANGED <<messageHistory, callResultsPending, futVars,
                        functionCounters, idVars, published>>

\* a second attempt for a call that is slow to return: a new CallId
\* awaited by the same call
SpeculativeRetry(c) ==
    /\ mode = "queue"
    /\ fut[c] = "pending"
    /\ Len(ids[c]) = 1
    /\ stopPc = "none"
    /\ nextCallId <= MaxCallIds
    /\ ids' = [ids EXCEPT ![c] = Append(@, FreshCallId)]
    /\ nextCallId' = nextCallId + 1
    /\ published' = published \cup {FreshCallId}
    /\ callResultsPending' = [callResultsPending EXCEPT ![FreshCallId] = c]
    /\ functionCounters' = CountInvocation(Incr(functionCounters, "retries"))
    /\ UNCHANGED <<notEngine, logger, mode, funnelVars, futVars, reconciler, pollers,
                   messageHistory, lifecycleVars>>

NextEngine ==
    \/ \E c \in Calls, lossy \in BOOLEAN : Invoke(c, lossy)
    \/ \E c \in Calls, outcome \in HttpsOutcomes : HttpsResolve(c, outcome)
    \/ \E c \in Calls : HttpsReject(c)
    \/ \E n \in 0 .. MaxConcurrentExecutions : SetConcurrency(n)
    \/ \E fromCleanup, deleteResources \in BOOLEAN :
          Stop(fromCleanup, deleteResources)
    \/ DeleteResources
    \/ ReconcilerStop
    \/ StopReturn
    \/ CleanupReturn
    \/ \E id \in CallIds, m \in Messages : ReceiveMessage(id, m)
    \/ \E c \in Calls : SpeculativeRetry(c)


(***************************************************************************)
(* Properties of the invocation engine.                                    *)
(***************************************************************************)

\* C1: at the moment cleanup() returns, no call's promise is still pending
C1_NonePendingWhenCleanupReturns ==
    [][(cleanupPc # "returned" /\ cleanupPc' = "returned")
          => \A c \in Calls : fut'[c] # "pending"]_vars

C3_CallIdsDistinct ==
    \A c1, c2 \in Calls :
       \A i \in DOMAIN ids[c1], j \in DOMAIN ids[c2] :
          ids[c1][i] = ids[c2][j] => (c1 = c2 /\ i = j)

\* C3: the CallIds are pairwise distinct, and a terminal message for a
\* CallId that already had one settles no promise and changes no counter
C3_DistinctAndCompletedOnce ==
    /\ []C3_CallIdsDistinct
    /\ [][\A id \in CallIds :
             (terminals[id] >= 1 /\ terminals'[id] > terminals[id])
                => UNCHANGED <<fut, val, err, functionCounters>>]_vars

\* two calls are made and the response of one of them came twice
C3_Witness ==
    \E c \in Calls :
       /\ ids[c] # <<>>
       /\ terminals[ids[c][1]] = 2
       /\ fut[c] = "fulfilled"
       /\ \A d \in Calls : ids[d] # <<>>

\* C4: completed + errors is at most invocations
C4_Bound ==
    functionCounters.completed + functionCounters.errors
       <= functionCounters.invocations

C5_OutstandingAreCancelled ==
    \A c \in outstanding :
       /\ fut[c] # "fulfilled"
       /\ fut[c] = "rejected" => err[c] = CancelError

\* C6: a task waiting in the funnel when stop() is invoked is rejected with
\* 'Rejected pending request' and is not started afterwards
C6_WaitersRejectedNeverStarted ==
    \A c \in rejectedByStop :
       /\ fut[c] = "rejected"
       /\ err[c] = CancelError
       /\ c \notin startedAfterStop

\* what the caller of call c got
Delivered(c) ==
    IF fut[c] = "fulfilled" THEN Returned(val[c])
    ELSE IF fut[c] = "rejected" THEN ErrorOutcome(err[c])
    ELSE NoOutcome

\* C10: a call with a speculative retry that stop() did not cancel delivers
\* the first terminal response processed for it
C10_DeliversFirst ==
    \A c \in Calls :
       (Len(ids[c]) = 2 /\ first[c] # NoOutcome /\ err[c] # CancelError)
          => Delivered(c) = first[c]

\* C10: the call delivers the first terminal response of its two attempts,
\* and a settled promise is never settled again
C10_FirstResponseWins ==
    /\ []C10_DeliversFirst
    /\ [][\A c \in Calls :
             fut[c] \in {"fulfilled", "rejected"}
                => /\ fut'[c] = fut[c]
                   /\ val'[c] = val[c]
                   /\ err'[c] = err[c]]_vars

\* both attempts were answered, the later answer unlike the first, and the
\* caller has the value of the first
C10_Witness ==
    \E c \in Calls :
       /\ Len(ids[c]) = 2
       /\ terminals[ids[c][1]] >= 1
       /\ terminals[ids[c][2]] >= 1
       /\ late[c]
       /\ fut[c] = "fulfilled"
       /\ Delivered(c) = first[c]


\* C11: a dead letter for a pending call rejects the call's promise, adds
\* one to errors and nothing to completed, and issues no attempt, then or
\* later
C11_DeadLetterEndsCall ==
    /\ [][\A id \in CallIds :
             (/\ callResultsPending[id] # NoCall
              /\ fut[callResultsPending[id]] = "pending"
              /\ ReceiveMessage(id, ErrorOutcome("deadletter")))
                => /\ fut'[callResultsPending[id]] = "rejected"
                   /\ err'[callResultsPending[id]] = "deadletter"
                   /\ functionCounters'.errors = functionCounters.errors + 1
                   /\ functionCounters'.completed = functionCounters.completed
                   /\ functionCounters'.retries = functionCounters.retries
                   /\ ids' = ids
                   /\ published' = published]_vars
    /\ [][\A c \in Calls : err[c] = "deadletter" => ids'[c] = ids[c]]_vars

\* a call with retries left was ended by a dead letter
C11_Witness ==
    \E c \in Calls :
       /\ fut[c] = "rejected"
       /\ err[c] = "deadletter"
       /\ Len(ids[c]) = 1
       /\ ShouldRetry(Len(ids[c]) - 1)
       /\ nextCallId <= MaxCallIds
       /\ functionCounters.errors = 1


\* C12: a call is attempted at most maxRetries + 1 times: the invocation of
\* a call is reissued at most maxRetries times
C12_AtMostMaxRetriesPlusOneAttempts ==
    \A c \in Calls : attempt[c] + 1 <= MaxRetries + 1


\* C13: an error of the remote function ends the call where it is: the
\* promise is rejected with it, shouldRetry is not asked (retries keeps its
\* value), and no attempt is issued for the call, then or later
C13_UserErrorNotRetried ==
    /\ [][\A c \in Calls :
             (fut[c] = "pending" /\ err'[c] = "error")
                => /\ fut'[c] = "rejected"
                   /\ functionCounters'.retries = functionCounters.retries
                   /\ functionCounters'.invocations = functionCounters.invocations
                   /\ attempt'[c] = attempt[c]
                   /\ ids'[c] = ids[c]
                   /\ c \notin executing']_vars
    /\ [][\A c \in Calls :
             err[c] = "error"
                => /\ attempt'[c] = attempt[c]
                   /\ ids'[c] = ids[c]
                   /\ c \notin executing']_vars

\* a call on the https path was attempted once and rejected with the error
\* of the remote function, and no retry was counted
C13_Witness ==
    \E c \in Calls :
       /\ mode = "https"
       /\ fut[c] = "rejected"
       /\ err[c] = "error"
       /\ attempt[c] = 0
       /\ functionCounters.retries = 0
       /\ functionCounters.errors = 1


(***************************************************************************)
(* Errors of the remote function: createErrorResponse on the remote side,  *)
(* processResponse on the caller's.  An error object has a prototype       *)
(* (whose name is its class) and own properties; a property is absent, or  *)
(* holds undefined, a string or a number.                                  *)
(***************************************************************************)
PropNames == {"name", "message", "stack", "code", "info"}
Absent == [type |-> "absent", v |-> ""]
UndefinedValue == [type |-> "undefined", v |-> ""]
Str(x) == [type |-> "string", v |-> x]
Num(x) == [type |-> "number", v |-> x]

\* the errors a remote function throws: of class Error or TypeError, with
\* or without a name of its own, a code (string or number) and an info
ErrorObjects ==
    {[proto |-> cls,
      own |-> [p \in PropNames |->
                 CASE p = "name" -> name
                   [] p = "message" -> message
                   [] p = "stack" -> Str("at f")
                   [] p = "code" -> code
                   [] OTHER -> info]] :
        cls \in {"Error", "TypeError"},
        name \in {Absent, Str("CustomError")},
        message \in {Str("bad"), Str("worse")},
        code \in {Absent, Str("ENOENT"), Num("7")},
        info \in {Absent, Str("details")}}

\* err[name]: an own property, or the prototype's
Get(e, p) ==
    IF e.own[p] # Absent THEN e.own[p]
    ELSE IF p = "name" THEN Str(e.proto)
    ELSE UndefinedValue

\* createErrorResponse: the own properties that hold a string
CreateErrorResponse(e) ==
    [p \in PropNames |-> IF e.own[p].type = "string" THEN e.own[p] ELSE Absent]

\* errValue.name and the like, read from the response
Field(value, p) == IF value[p] # Absent THEN value[p] ELSE UndefinedValue

\* processResponse: new Error(errValue.message) with name and stack
\* assigned from errValue
ProcessResponseError(value) ==
    [proto |-> "Error",
     own |-> [p \in PropNames |->
                IF p \in {"message", "name", "stack"} THEN Field(value, p)
                ELSE Absent]]

NoError == [proto |-> "Error", own |-> [p \in PropNames |-> Absent]]

InitErrors(errors) ==
    /\ thrown \in errors
    /\ errObj = [p \in PropNames |-> Absent]
    /\ caught = NoError
    /\ errPc = "thrown"

\* the remote side answers with the error response
CreateErrorResponseStep ==
    /\ errPc = "thrown"
    /\ errObj' = CreateErrorResponse(thrown)
    /\ errPc' = "responded"
    /\ UNCHANGED <<notErrors, thrown, caught>>

\* the caller's side turns the response into the error it rejects with
ProcessResponseStep ==
    /\ errPc = "responded"
    /\ caught' = ProcessResponseError(errObj)
    /\ errPc' = "processed"
    /\ UNCHANGED <<notErrors, thrown, errObj>>

NextErrors ==
    \/ CreateErrorResponseStep
    \/ ProcessResponseStep

\* C14: the error the caller's promise is rejected with has the name, the
\* message and the stack of the error thrown, and every own property of it
\* that holds a string
C14_ErrorRoundTrip ==
    errPc = "processed"
       => /\ \A p \in {"name", "message", "stack"} : Get(caught, p) = Get(thrown, p)
          /\ \A p \in PropNames :
                thrown.own[p].type = "string" => Get(caught, p) = thrown.own[p]


\* C15: arguments that lose information under JSON serialization only
\* cause a warning: no call's promise is rejected because of the
\* serialization difference
C15_LossyArgumentsOnlyWarn ==
    \A c \in Calls : ~(fut[c] = "rejected" /\ err[c] = "serialization")

\* ---------------------------------------------------------------------
\* The garbage collector: collectGarbage and collectGarbageForLogGroups
\* ---------------------------------------------------------------------

\* collectGarbage begins a run unless the flag of the module is set
StartsRun(running) == ~running

\* initialize() of this instance has called collectGarbage: as the first
\* instance of the process it began a run, as a later one it did not
InitGc(isFirst) ==
    /\ garbageCollectorRunning = TRUE
    /\ gcPc = IF isFirst THEN "listing" ELSE "resolved"
    /\ gcPages = 0
    /\ gcTasks = 0
    /\ gcQueue = 0
    /\ clock = 0
    /\ lastGcStart = 0
    /\ gcRuns = 1
    /\ instances = IF isFirst THEN 1 ELSE 2

\* describeLogGroups hands a page of log groups to eachPage: a task for it
\* is pushed to gcFunnel and its promise kept
GcPage ==
    /\ gcPc = "listing"
    /\ gcPages < MaxPages
    /\ gcPages' = gcPages + 1
    /\ gcTasks' = gcTasks + 1
    /\ UNCHANGED <<notGc, garbageCollectorRunning, gcPc, gcQueue, clock,
                   lastGcStart, gcRuns, instances>>

\* the last page was handed over: eachPage is called with null
GcListEnd ==
    /\ gcPc = "listing"
    /\ gcPc' = "awaiting"
    /\ UNCHANGED <<notGc, garbageCollectorRunning, gcPages, gcTasks, gcQueue,
                   clock, lastGcStart, gcRuns, instances>>

\* collectGarbageForLogGroups of a page returns: it has pushed a deletion
\* for each of the k garbage functions of the page to
\* garbageCollectionFunnel and awaited none of them
GcPageDone(k) ==
    /\ gcTasks > 0
    /\ gcQueue + k <= MaxGarbage
    /\ gcTasks' = gcTasks - 1
    /\ gcQueue' = gcQueue + k
    /\ UNCHANGED <<notGc, garbageCollectorRunning, gcPc, gcPages, clock,
                   lastGcStart, gcRuns, instances>>

\* Promise.all(promises) of collectGarbage: the page tasks have returned
GcResolve ==
    /\ gcPc = "awaiting"
    /\ gcTasks = 0
    /\ gcPc' = "resolved"
    /\ UNCHANGED <<notGc, garbageCollectorRunning, gcPages, gcTasks, gcQueue,
                   clock, lastGcStart, gcRuns, instances>>

\* describeLogGroups reports an error to eachPage, or the task of a page
\* fails: the promise of collectGarbage (state.gcPromise) rejects
GcReject ==
    /\ gcPc = "listing" \/ (gcPc = "awaiting" /\ gcTasks > 0)
    /\ gcPc' = "rejected"
    /\ gcTasks' = IF gcPc = "awaiting" THEN gcTasks - 1 ELSE gcTasks
    /\ UNCHANGED <<notGc, garbageCollectorRunning, gcPages, gcQueue, clock,
                   lastGcStart, gcRuns, instances>>

\* garbageCollectionFunnel finishes a deletion it was handed
GcDelete ==
    /\ gcQueue > 0
    /\ gcQueue' = gcQueue - 1
    /\ UNCHANGED <<notGc, garbageCollectorRunning, gcPc, gcPages, gcTasks,
                   clock, lastGcStart, gcRuns, instances>>

\* another instance is initialized in this process and calls
\* collectGarbage; the run it may begin is not followed further
InitializeAnother ==
    /\ instances < MaxInstances
    /\ instances' = instances + 1
    /\ garbageCollectorRunning' = TRUE
    /\ lastGcStart' = IF StartsRun(garbageCollectorRunning) THEN clock
                      ELSE lastGcStart
    /\ gcRuns' = IF StartsRun(garbageCollectorRunning) THEN gcRuns + 1 ELSE gcRuns
    /\ UNCHANGED <<notGc, gcPc, gcPages, gcTasks, gcQueue, clock>>

\* an hour passes
TickHour ==
    /\ clock < MaxHours
    /\ clock' = clock + 1
    /\ UNCHANGED <<notGc, garbageCollectorRunning, gcPc, gcPages, gcTasks,
                   gcQueue, lastGcStart, gcRuns, instances>>

NextLifecycle ==
    \/ \E fromCleanup, deleteResources \in BOOLEAN :
          Stop(fromCleanup, deleteResources)
    \/ ReconcilerStop
    \/ StopReturn
    \/ DeleteResources
    \/ CleanupReturn
    \/ GcPage
    \/ GcListEnd
    \/ \E k \in 0..MaxGarbage : GcPageDone(k)
    \/ GcResolve
    \/ GcReject
    \/ StopRejects
    \/ GcDelete
    \/ InitializeAnother
    \/ TickHour

\* ---------------------------------------------------------------------
\* Claims about cleanup and the resources of an instance
\* ---------------------------------------------------------------------

SecondStop ==
    /\ cleanups = 1
    /\ cleanups' = 2
    /\ PendingFutures \subseteq rejectedByStop
    /\ \A id \in CallIds : callResultsPending[id] = NoCall

C18_KeepIssuesNoDelete ==
    [][Stop(TRUE, FALSE) => UNCHANGED <<deletePc, cloud>>]_vars

\* C19: when cleanup() returns, the garbage collection this instance
\* started has completed: no page task is running and no deletion is
\* queued or in progress in garbageCollectionFunnel.
C19_GcCompleteWhenCleanupReturns ==
    cleanupPc = "returned" => gcPc = "resolved" /\ gcTasks = 0 /\ gcQueue = 0

\* C20: however many instances are initialized, a garbage collection run
\* is started by an initialization exactly when an hour or more has passed
\* since the last run started: at most one run in an hour, and a new run
\* once the hour has passed.
C20_RunOnceAnHourAndAgainAfter ==
    [][InitializeAnother => (gcRuns' = gcRuns + 1 <=> clock > lastGcStart)]_vars

\* ---------------------------------------------------------------------
\* The garbage collector's choice of what to delete:
\* collectGarbageForLogGroups on a log group of an earlier instance
\* ---------------------------------------------------------------------

Region == "us-west-2"
AccountId == "123456789012"
UserId == "aidaexample"
GarbageFunctionName == "cloudify-a1b2"
NoField == <<>>

\* the retention collectGarbage hands to collectGarbageForLogGroups
GcRetentionInDays == 1

GetLogGroupName(FunctionName) == <<"/aws/lambda/", FunctionName>>
FunctionNameFromLogGroup(logGroupName) == logGroupName[2]

GetSNSTopicName(FunctionName) == <<FunctionName, "-Requests">>
GetSNSTopicArn(region, accountId, FunctionName) ==
    <<"arn:aws:sqs", region, accountId>> \o GetSNSTopicName(FunctionName)
GetSQSName(FunctionName) == <<FunctionName, "-Responses">>
GetResponseQueueUrl(region, accountId, FunctionName) ==
    <<"https://sqs", region, "amazonaws.com", accountId>> \o GetSQSName(FunctionName)
GetBucketName(region) == <<"cloudify-cache", region, UserId>>
GetS3Key(FunctionName) == <<FunctionName>>

\* what the provider answers when the topic and the queue are created
CreateSNSTopic(region, accountId, TopicName) ==
    <<"arn:aws:sns", region, accountId>> \o TopicName
CreateSQSQueue(region, accountId, QueueName) ==
    <<"https://sqs", region, "amazonaws.com", accountId>> \o QueueName

\* state.resources of an instance after initialize
CreatedHandle(FunctionName, m, packaged) ==
    [FunctionName |-> <<FunctionName>>,
     RoleName |-> <<"cloudify-cached-role">>,
     region |-> <<Region>>,
     RequestTopicArn |->
         IF m = "queue"
         THEN CreateSNSTopic(Region, AccountId, GetSNSTopicName(FunctionName))
         ELSE NoField,
     SNSLambdaSubscriptionArn |->
         IF m = "queue" THEN <<"subscription", FunctionName>> ELSE NoField,
     ResponseQueueUrl |->
         IF m = "queue"
         THEN CreateSQSQueue(Region, AccountId, GetSQSName(FunctionName))
         ELSE NoField,
     ResponseQueueArn |->
         IF m = "queue" THEN <<"arn:aws:sqs", Region, AccountId>>
                                \o GetSQSName(FunctionName)
         ELSE NoField,
     s3Bucket |-> IF packaged THEN GetBucketName(Region) ELSE NoField,
     s3Key |-> IF packaged THEN GetS3Key(FunctionName) ELSE NoField]

\* the handle collectGarbageForLogGroups builds from the function's name
ReconstructedHandle(FunctionName, region, accountId, s3Bucket) ==
    [FunctionName |-> <<FunctionName>>,
     RoleName |-> <<"">>,
     region |-> <<region>>,
     RequestTopicArn |-> GetSNSTopicArn(region, accountId, FunctionName),
     SNSLambdaSubscriptionArn |-> NoField,
     ResponseQueueUrl |-> GetResponseQueueUrl(region, accountId, FunctionName),
     ResponseQueueArn |-> NoField,
     s3Bucket |-> s3Bucket,
     s3Key |-> GetS3Key(FunctionName)]

\* a log group is garbage when it was created more than the retention ago,
\* has a retention policy and holds no bytes; ages are in days
IsGarbage(g, retention) ==
    /\ g.age > retention
    /\ g.hasRetention
    /\ g.empty

LogGroups ==
    [name : {GetLogGroupName(GarbageFunctionName)}, age : 0 .. MaxAge,
     hasRetention : BOOLEAN, empty : BOOLEAN, m : {"https", "queue"},
     packaged : BOOLEAN]

InitScan(groups, options) ==
    /\ logGroup \in groups
    /\ retentionInDays \in options
    /\ scanned = FALSE
    /\ gcIssued = {}

\* nothing to scan
InitScanIdle ==
    InitScan({[name |-> GetLogGroupName(GarbageFunctionName), age |-> 0,
               hasRetention |-> FALSE, empty |-> FALSE, m |-> "https",
               packaged |-> FALSE]}, {GcRetentionInDays})

\* collectGarbageForLogGroups(services, page.logGroups, 1, region): a
\* deletion is pushed for the function of each garbage log group
CollectGarbageForLogGroups ==
    /\ ~scanned
    /\ scanned' = TRUE
    /\ gcIssued' =
          IF IsGarbage(logGroup, GcRetentionInDays)
          THEN {ReconstructedHandle(FunctionNameFromLogGroup(logGroup.name),
                                    Region, AccountId, GetBucketName(Region))}
          ELSE {}
    /\ UNCHANGED <<notScan, logGroup, retentionInDays>>

NextScan == CollectGarbageForLogGroups

\* the fields on which a reconstructed handle is to agree with the handle
\* of the instance
ComparedFields ==
    {"FunctionName", "region", "RequestTopicArn", "ResponseQueueUrl", "s3Bucket",
     "s3Key"}
Agrees(issued, created) ==
    \A f \in ComparedFields : created[f] # NoField => issued[f] = created[f]

\* C21: with retentionInDays = d > 0 the garbage collector pushes no
\* deletion for a function created less than d days ago (the function is
\* at least as old as its log group).
C21_YoungerThanRetentionIsKept ==
    scanned /\ retentionInDays > 0 /\ logGroup.age < retentionInDays
       => gcIssued = {}

\* C22: with retentionInDays = 0 the collector pushes, for an earlier
\* instance that was left in place and whose log group is empty, a deletion
\* whose handle agrees with the handle of that instance on every field but
\* RoleName, SNSLambdaSubscriptionArn and ResponseQueueArn.
C22_ReconstructedHandleAgrees ==
    scanned /\ retentionInDays = 0 /\ logGroup.hasRetention /\ logGroup.empty
       => \E h \in gcIssued :
             Agrees(h, CreatedHandle(FunctionNameFromLogGroup(logGroup.name),
                                     logGroup.m, logGroup.packaged))

\* ---------------------------------------------------------------------
\* Counters, statistics and the clock skew: processResponse and the
\* statistics timer of CloudFunction
\* ---------------------------------------------------------------------

Fns == {"f", "g"}
CounterKeys == {"completed", "retries", "errors"}

\* timestamps are in milliseconds; the inputs are multiples of TimeUnit, so
\* that halving and the decaying average stay whole numbers
TimeUnit == 2 * 10 * 10 * 10
LocalStartTime == 4 * TimeUnit

Max(a, b) == IF a > b THEN a ELSE b

\* new FunctionCounters()
NoCounters == [k \in CounterKeys |-> 0]
\* new Statistics(): the samples and the least of them
NoStatistics == [samples |-> 0, min |-> 0]

\* Statistics.update(value)
StatisticsUpdate(st, value) ==
    [samples |-> st.samples + 1,
     min |-> IF st.samples = 0 THEN value ELSE Min(st.min, value)]

\* FunctionCountersMap.incr(fn, key)
IncrMapNoAggregate(map, fn, key) ==
    [map EXCEPT !.fIncremental[fn][key] = @ + 1,
                !.fAggregate[fn][key] = @ + 1]
IncrMap(map, fn, key) ==
    [map EXCEPT !.fIncremental[fn][key] = @ + 1,
                !.fAggregate[fn][key] = @ + 1,
                !.aggregate[key] = @ + 1]

\* FunctionStatsMap.update(fn, "remoteStartLatency", value)
UpdateMap(map, fn, value) ==
    [map EXCEPT !.fIncremental[fn] = StatisticsUpdate(@, value),
                !.fAggregate[fn] = StatisticsUpdate(@, value),
                !.aggregate = StatisticsUpdate(@, value)]

\* ExponentiallyDecayingAverageValue(0.3).update(n): the first sample is
\* the value, a later one enters with weight 0.3
DecayingUpdate(avg, n) ==
    [samples |-> avg.samples + 1,
     value |-> IF avg.samples = 0 THEN n
               ELSE (3 * n + 7 * avg.value) \div 10]

\* the estimate is folded into the average once more than one call has
\* completed
UsesAverage(completed) == completed > 1

\* Math.max(1, latency)
LatencyUnclamped(latency) == latency
Latency(latency) == Max(1, latency)

NoTiming == [timed |-> FALSE, remoteStartLatency |-> 0, returnLatency |-> 0]

InitStats ==
    /\ fcounters = [aggregate |-> NoCounters,
                    fIncremental |-> [fn \in Fns |-> NoCounters],
                    fAggregate |-> [fn \in Fns |-> NoCounters]]
    /\ fstats = [aggregate |-> NoStatistics,
                 fIncremental |-> [fn \in Fns |-> NoStatistics],
                 fAggregate |-> [fn \in Fns |-> NoStatistics]]
    /\ prevSkew = [samples |-> 0, value |-> 0]
    /\ rv = NoTiming
    /\ emitted = [fn \in Fns |-> NoCounters]
    /\ timedCalls = 0
    /\ bypassed = 0
    /\ responses = 0
    /\ exceptions = 0

\* shouldRetry of cloudifyWithResponse counts a retry of fn
CountRetry(fn) ==
    /\ responses < MaxResponses
    /\ fcounters.aggregate.retries < MaxCountedRetries
    /\ fcounters' = IncrMap(fcounters, fn, "retries")
    /\ UNCHANGED <<notStats, fstats, prevSkew, rv, emitted, timedCalls, bypassed,
                   responses, exceptions>>

\* how callFunction ends, and the type of the return processResponse is
\* given: the catch of cloudifyWithResponse turns an exception into a return
\* of type "error"
Outcomes == {"value", "error", "exception"}
ReturnedTypeSwallowed(outcome) == IF outcome = "error" THEN "error" ELSE "value"
ReturnedType(outcome) == IF outcome = "value" THEN "value" ELSE "error"

\* processResponse for a response of fn without remote timing
ProcessUntimedResponse(fn, isError) ==
    /\ responses < MaxResponses
    /\ responses' = responses + 1
    /\ rv' = NoTiming
    /\ fcounters' = IncrMap(fcounters, fn, IF isError THEN "errors" ELSE "completed")
    /\ UNCHANGED <<notStats, fstats, prevSkew, emitted, timedCalls, bypassed,
                   exceptions>>

\* callFunction throws: the catch makes an error return without remote
\* timing of the exception, and processResponse is given that
CallFunctionThrows(fn) ==
    /\ responses < MaxResponses
    /\ responses' = responses + 1
    /\ exceptions' = exceptions + 1
    /\ rv' = NoTiming
    /\ fcounters' = IncrMap(fcounters, fn,
                            IF ReturnedType("exception") = "error"
                            THEN "errors" ELSE "completed")
    /\ UNCHANGED <<notStats, fstats, prevSkew, emitted, timedCalls, bypassed>>

\* processResponse for a response of fn that carries
\* remoteExecutionStartTime and remoteExecutionEndTime; out and back are
\* the network delays, offset is what the remote clock is ahead by
ProcessTimedResponse(fn, isError, out, execution, sendResponse, back, offset) ==
    LET localRequestSentTime == LocalStartTime
        remoteExecutionStartTime == localRequestSentTime + out + offset
        remoteExecutionEndTime == remoteExecutionStartTime + execution
        remoteResponseSentTime == remoteExecutionEndTime + sendResponse
        localEndTime == localRequestSentTime + out + execution + sendResponse + back
        roundTripLatency == localEndTime - localRequestSentTime
        executionLatency == remoteExecutionEndTime - remoteExecutionStartTime
        sendResponseLatency ==
            Max(0, remoteResponseSentTime - remoteExecutionEndTime)
        networkLatency == roundTripLatency - executionLatency - sendResponseLatency
        estimatedRemoteStartTime == localRequestSentTime + networkLatency \div 2
        estimatedSkew == estimatedRemoteStartTime - remoteExecutionStartTime
        folded == UsesAverage(fcounters.aggregate.completed)
        average == DecayingUpdate(prevSkew, estimatedSkew)
        skew == IF folded THEN average.value ELSE estimatedSkew
        remoteStartLatency ==
            Latency(remoteExecutionStartTime + skew - localRequestSentTime)
        returnLatency == Latency(localEndTime - (remoteExecutionEndTime + skew))
    IN /\ responses < MaxResponses
       /\ responses' = responses + 1
       /\ prevSkew' = IF folded THEN average ELSE prevSkew
       /\ fstats' = UpdateMap(fstats, fn, remoteStartLatency)
       /\ rv' = [timed |-> TRUE, remoteStartLatency |-> remoteStartLatency,
                 returnLatency |-> returnLatency]
       /\ fcounters' =
              IncrMap(fcounters, fn, IF isError THEN "errors" ELSE "completed")
       /\ timedCalls' = timedCalls + 1
       /\ bypassed' = IF folded THEN bypassed ELSE bypassed + 1
       /\ UNCHANGED <<notStats, emitted, exceptions>>

\* the timer of printStatisticsInterval fires: the incremental counters of
\* each function are printed, then the incremental maps are cleared
PrintStatistics ==
    /\ \E fn \in Fns : fcounters.fIncremental[fn] # NoCounters
                          \/ fstats.fIncremental[fn] # NoStatistics
    /\ emitted' = [fn \in Fns |->
                      [k \in CounterKeys |->
                          emitted[fn][k] + fcounters.fIncremental[fn][k]]]
    /\ fcounters' = [fcounters EXCEPT !.fIncremental = [fn \in Fns |-> NoCounters]]
    /\ fstats' = [fstats EXCEPT !.fIncremental = [fn \in Fns |-> NoStatistics]]
    /\ UNCHANGED <<notStats, prevSkew, rv, timedCalls, bypassed, responses,
                   exceptions>>

NextStats ==
    \/ \E fn \in Fns : CountRetry(fn)
    \/ \E fn \in Fns, isError \in BOOLEAN : ProcessUntimedResponse(fn, isError)
    \/ \E fn \in Fns, isError \in BOOLEAN, out, back \in {0, TimeUnit},
          offset \in {-2 * TimeUnit, 0, 2 * TimeUnit} :
          ProcessTimedResponse(fn, isError, out, TimeUnit, TimeUnit, back, offset)
    \/ \E fn \in Fns : CallFunctionThrows(fn)
    \/ PrintStatistics

\* C23: every remoteStartLatency and returnLatency that a response reports
\* or the statistics record is at least 1, whatever the timestamps and the
\* skew are.  (The returnLatency recorded is the one the response reports.)
C23_LatenciesAtLeastOne ==
    /\ rv.timed => rv.remoteStartLatency >= 1 /\ rv.returnLatency >= 1
    /\ fstats.aggregate.samples > 0 => fstats.aggregate.min >= 1
    /\ \A fn \in Fns :
          /\ fstats.fAggregate[fn].samples > 0 => fstats.fAggregate[fn].min >= 1
          /\ fstats.fIncremental[fn].samples > 0 => fstats.fIncremental[fn].min >= 1

\* a response to which the average was applied reports a start latency
\* that was raised to 1 and a return latency above it
C23_Witness ==
    /\ rv.timed
    /\ prevSkew.samples > 0
    /\ rv.remoteStartLatency = 1
    /\ rv.returnLatency > 1

\* C24: of the responses with remote timing exactly one, the first, has its
\* own estimate applied as the skew; the average is applied to the others.
C24_OneCallBypassesAverage ==
    timedCalls >= 1 => bypassed = 1

\* what the counters of fn add up to: emitted by the ticks, and not yet
C25_Total(fn, k) == emitted[fn][k] + fcounters.fIncremental[fn][k]

\* C25: a stats tick emits the incremental counters and statistics and
\* empties them, and leaves the aggregates alone; each aggregate counter is
\* always the sum of what the ticks emitted and what is not yet emitted.
C25_AggregatesAreSumOfDeltas ==
    /\ [](\A k \in CounterKeys :
             /\ \A fn \in Fns : fcounters.fAggregate[fn][k] = C25_Total(fn, k)
             /\ fcounters.aggregate[k] = C25_Total("f", k) + C25_Total("g", k))
    /\ [][PrintStatistics =>
             /\ fcounters'.fIncremental = [fn \in Fns |-> NoCounters]
             /\ fstats'.fIncremental = [fn \in Fns |-> NoStatistics]
             /\ fcounters'.fAggregate = fcounters.fAggregate
             /\ fcounters'.aggregate = fcounters.aggregate
             /\ fstats'.fAggregate = fstats.fAggregate
             /\ fstats'.aggregate = fstats.aggregate]_vars

\* a tick has emitted counters of f, more were counted since, and g has
\* counters too
C25_Witness ==
    /\ emitted["f"].completed > 0
    /\ fcounters.fIncremental["f"].completed > 0
    /\ fcounters.fAggregate["g"].errors > 0
    /\ fcounters.aggregate.completed = 2

\* C27: once stop has published the stop message every poll fiber of the
\* reconciler exits in the end, however many are running (at least 2), and
\* stop returns only when none is left.
C27_PollersExitBeforeStopReturns ==
    /\ [](mode = "queue" /\ stopPc = "returned" => pollers = 0)
    /\ (reconciler = "draining") ~> (pollers = 0)

\* stop() has returned on a queue-mode instance: its poll fibers are gone
C27_Witness ==
    /\ mode = "queue"
    /\ stopPc = "returned"
    /\ pollers = 0
    /\ cleanups = 0

\* C28: a call made after stop() or cleanup() was invoked is not accepted:
\* no request is sent or published for it, it does not enter the funnel and
\* no pending entry is registered for it.
C28_NoCallAcceptedAfterStop ==
    [][stopPc # "none" /\ (\E c \in Calls, lossy \in BOOLEAN : Invoke(c, lossy))
          => /\ executing' = executing
             /\ pendingQueue' = pendingQueue
             /\ published' = published
             /\ callResultsPending' = callResultsPending]_vars

\* ---------------------------------------------------------------------
\* A Funnel on its own: push, completion of a task, setMaxConcurrency
\* ---------------------------------------------------------------------

Tasks == 1 .. NumTasks

\* a task that completes gives its permit back, whether it failed or not
ReleaseIfFulfilled(running, t, ok) == IF ok THEN running \ {t} ELSE running
Release(running, t, ok) == running \ {t}

\* the waiters of q that were not started
Remaining(q, started) == SelectSeq(q, LAMBDA t : t \notin started)

\* the place of task t in the order of the pushes
RECURSIVE Place(_, _)
Place(order, t) ==
    IF order = <<>> THEN 0
    ELSE IF Head(order) = t THEN 1
    ELSE 1 + Place(Tail(order), t)

InitOneFunnel(limits) ==
    /\ funnel \in [maxConcurrency : limits, pendingQueue : {<<>>}, running : {{}}]
    /\ future = [t \in Tasks |-> "none"]
    /\ pushed = <<>>
    /\ admitted = [t \in Tasks |-> "none"]

\* the funnel admits waiters of q, oldest first, while it has capacity
FunnelDoWork(q, running, limit, cause) ==
    LET started == Admitted(q, running, limit) IN
    /\ funnel' = [maxConcurrency |-> limit,
                  pendingQueue |-> Remaining(q, started),
                  running |-> running \cup started]
    /\ admitted' = [t \in Tasks |-> IF t \in started THEN cause ELSE admitted[t]]

\* push(task)
FunnelPush(t) ==
    /\ future[t] = "none"
    /\ future' = [future EXCEPT ![t] = "pending"]
    /\ pushed' = Append(pushed, t)
    /\ FunnelDoWork(Append(funnel.pendingQueue, t), funnel.running,
                    funnel.maxConcurrency, "push")
    /\ UNCHANGED notOneFunnel

\* a task that was admitted returns (ok) or throws
FunnelComplete(t, ok) ==
    /\ t \in funnel.running
    /\ future' = [future EXCEPT ![t] = IF ok THEN "fulfilled" ELSE "rejected"]
    /\ FunnelDoWork(funnel.pendingQueue, Release(funnel.running, t, ok),
                    funnel.maxConcurrency, "completion")
    /\ UNCHANGED <<notOneFunnel, pushed>>

\* setMaxConcurrency(n)
FunnelSetMaxConcurrency(n) ==
    /\ n # funnel.maxConcurrency
    /\ FunnelDoWork(funnel.pendingQueue, funnel.running, n, "setMaxConcurrency")
    /\ UNCHANGED <<notOneFunnel, future, pushed>>

NextOneFunnel ==
    \/ \E t \in Tasks : FunnelPush(t)
    \/ \E t \in Tasks, ok \in BOOLEAN : FunnelComplete(t, ok)
    \/ \E n \in 0 .. MaxFunnelConcurrency : FunnelSetMaxConcurrency(n)

\* C29: when a task the funnel admitted throws, the future of its push is
\* rejected and its permit is given back once: the task is no longer
\* running and the oldest waiter, if there is one and the limit allows, is
\* the one task admitted in its place.
C29_FailedTaskReleasesPermit ==
    [][\A t \in Tasks :
          FunnelComplete(t, FALSE) =>
             /\ future'[t] = "rejected"
             /\ funnel'.running =
                   (funnel.running \ {t})
                      \cup (IF /\ funnel.pendingQueue # <<>>
                               /\ Cardinality(funnel.running) <= funnel.maxConcurrency
                            THEN {Head(funnel.pendingQueue)} ELSE {})
             /\ Cardinality(funnel'.running) <= Cardinality(funnel.running)]_vars

\* under a limit of 1 the first task failed, no other has completed, and
\* the waiter behind it was admitted on that completion
C29_Witness ==
    /\ funnel.maxConcurrency = 1
    /\ Len(pushed) = 3
    /\ future[pushed[1]] = "rejected"
    /\ future[pushed[2]] = "pending" /\ future[pushed[3]] = "pending"
    /\ admitted[pushed[2]] = "completion"
    /\ funnel.running = {pushed[2]}
    /\ funnel.pendingQueue = <<pushed[3]>>

\* C30: the waiters of a funnel are admitted in the order they were pushed:
\* every task admitted so far was pushed before every task still waiting.
C30_AdmittedInPushOrder ==
    \A t \in {a \in Tasks : admitted[a] # "none"} :
       \A i \in DOMAIN funnel.pendingQueue :
          Place(pushed, t) < Place(pushed, funnel.pendingQueue[i])

\* two tasks wait behind the first, and the older of them was admitted
\* when the first one completed
C30_Witness ==
    /\ Len(pushed) = 3
    /\ future[pushed[1]] = "fulfilled"
    /\ admitted[pushed[2]] = "completion"
    /\ funnel.running = {pushed[2]}
    /\ funnel.pendingQueue = <<pushed[3]>>

ObjectNames == <<"o1", "o2", "o3">>
Nodes == {ObjectNames[i] : i \in 1 .. NumNodes}
Root == ObjectNames[1]
PropertyKeys == <<"a", "b">>
KeySet == {PropertyKeys[i] : i \in DOMAIN PropertyKeys}

\* what a property of source holds: nothing (no such own property),
\* undefined, a defined value that is not an object ("prim"; null is
\* treated the same by recurse: falsy, and not undefined), or an object
SourceValues == {"absent", "undefined", "prim"} \cup Nodes
\* what reading a property of dest gives: undefined (also when dest has no
\* such property), null, another primitive, or an object
DestValues == {"undefined", "null", "prim"} \cup Nodes

\* Object.keys(s)
ObjectKeys(s) == SelectSeq(PropertyKeys, LAMBDA k : source[s][k] # "absent")

\* isBackReference(o) against a stack
IsBackReference(st, o) == \E i \in DOMAIN st : st[i].s = o

\* d[key]: a property of an object, undefined on a primitive
Read(d, key) == IF d \in Nodes THEN dest[d][key] ELSE "undefined"

\* d[key] throws a TypeError when d is null; d[key] = undefined throws it
\* when d is null and, the module being strict code, when d is a primitive
ReadThrows(d) == d = "null"
WriteThrows(d) == d \notin Nodes

\* recurse(d, s) up to its forEach: the stack it leaves
Recurse(st, d, s) ==
    IF IsBackReference(st, s) \/ d = "undefined" THEN st
    ELSE Append(st, [d |-> d, s |-> s, keys |-> ObjectKeys(s)])

InitCopy(sources, dests) ==
    /\ source \in sources
    /\ dest \in dests
    /\ stack = <<>>
    /\ copyPc = "idle"

InitCopyIdle ==
    InitCopy({[n \in Nodes |-> [k \in KeySet |-> "absent"]]},
             {[n \in Nodes |-> [k \in KeySet |-> "undefined"]]})


\* deepCopyUndefined(dest, source), called with the roots of the graphs
DeepCopyUndefined ==
    /\ copyPc = "idle"
    /\ copyPc' = "running"
    /\ stack' = Recurse(<<>>, Root, Root)
    /\ UNCHANGED <<source, dest, notCopy>>

\* one turn of the forEach of the innermost recurse
RecurseKey ==
    /\ copyPc = "running"
    /\ stack # <<>>
    /\ stack[Len(stack)].keys # <<>>
    /\ LET top == stack[Len(stack)]
           key == Head(top.keys)
           rest == [stack EXCEPT ![Len(stack)].keys = Tail(top.keys)]
           v == source[top.s][key]
       IN  IF v \in Nodes
           THEN IF ReadThrows(top.d)
                THEN copyPc' = "thrown" /\ stack' = <<>> /\ dest' = dest
                ELSE /\ stack' = Recurse(rest, Read(top.d, key), v)
                     /\ UNCHANGED <<copyPc, dest>>
           ELSE IF v = "undefined"
           THEN IF WriteThrows(top.d)
                THEN copyPc' = "thrown" /\ stack' = <<>> /\ dest' = dest
                ELSE /\ dest' = [dest EXCEPT ![top.d][key] = "undefined"]
                     /\ stack' = rest
                     /\ copyPc' = copyPc
           ELSE stack' = rest /\ UNCHANGED <<copyPc, dest>>
    /\ UNCHANGED <<source, notCopy>>

\* the forEach of the innermost recurse is over: stack.pop() and return
RecurseReturn ==
    /\ copyPc = "running"
    /\ stack # <<>>
    /\ stack[Len(stack)].keys = <<>>
    /\ stack' = SubSeq(stack, 1, Len(stack) - 1)
    /\ copyPc' = IF Len(stack) = 1 THEN "returned" ELSE "running"
    /\ UNCHANGED <<source, dest, notCopy>>

NextCopy ==
    \/ DeepCopyUndefined
    \/ RecurseKey
    \/ RecurseReturn

\* C32: deepCopyUndefined(dest, source) returns, without throwing, for every
\* pair of object graphs: cyclic ones, and pairs in which dest lacks, or
\* holds a value that is not an object at, a path that is an object in
\* source.
C32_TerminatesWithoutThrowing ==
    [](copyPc # "thrown") /\ <>(copyPc = "returned")

\* whatever the graphs, the call is over after finitely many steps, and the
\* stack of recurse never holds an object twice
C32_Terminates ==
    /\ [](\A i, j \in DOMAIN stack : stack[i].s = stack[j].s => i = j)
    /\ <>(copyPc \in {"returned", "thrown"})

\* ---------------------------------------------------------------------
\* PersistentCache objects constructed for one directory
\* ---------------------------------------------------------------------

Caches == 1 .. NumCaches

\* mkdir(dir, { mode: 0o700, recursive: true }): with recursive it succeeds
\* when the directory is already there
MkdirFailsIfExists(present) == IF present THEN "EEXIST" ELSE "ok"
Mkdir(present) == "ok"

InitConstruct ==
    /\ initialized = [o \in Caches |-> "none"]
    /\ dirSeen = [o \in Caches |-> FALSE]


\* new PersistentCache(dir): this.initialized = this.initialize(dir), which
\* runs up to its first await, of exists(dir)
Construct(o) ==
    /\ initialized[o] = "none"
    /\ initialized' = [initialized EXCEPT ![o] = "exists"]
    /\ UNCHANGED <<cacheVars, dirSeen, notConstruct>>

\* exists(dir) answers
InitializeExists(o) ==
    /\ initialized[o] = "exists"
    /\ dirSeen' = [dirSeen EXCEPT ![o] = dirExists]
    /\ initialized' = [initialized EXCEPT ![o] = IF dirExists THEN "resolved" ELSE "mkdir"]
    /\ UNCHANGED <<cacheVars, notConstruct>>

\* mkdir answers
InitializeMkdir(o) ==
    /\ initialized[o] = "mkdir"
    /\ IF Mkdir(dirExists) = "ok"
       THEN /\ dirExists' = TRUE
            /\ initialized' = [initialized EXCEPT ![o] = "resolved"]
       ELSE /\ dirExists' = dirExists
            /\ initialized' = [initialized EXCEPT ![o] = "rejected"]
    /\ UNCHANGED <<now, files, inodes, nextInode, wpc, wpos, wres,
                   rpc, rstat, rino, rbuf, rres, obs, dirSeen, notConstruct>>

Initializes == \E o \in Caches : Construct(o) \/ InitializeExists(o) \/ InitializeMkdir(o)

\* the constructions, and set() of a cache object of another process
NextConstruct ==
    \/ \E o \in Caches : Construct(o)
    \/ \E o \in Caches : InitializeExists(o)
    \/ \E o \in Caches : InitializeMkdir(o)
    \/ \E w \in Writers : SetOpen(w)
    \/ \E w \in Writers : SetWrite(w)
    \/ \E w \in Writers : SetRename(w)

\* C33: when several PersistentCache objects are constructed for the same
\* directory, one after the other or concurrently, no initialization fails,
\* the directory exists once an initialization has completed, and no step
\* of an initialization changes an entry stored in the directory.
C33_InitializationIdempotent ==
    /\ [](\A o \in Caches : initialized[o] # "rejected")
    /\ [](\A o \in Caches : initialized[o] = "resolved" => dirExists)
    /\ [][Initializes => files' = files /\ inodes' = inodes]_vars

\* two objects found no directory and both called mkdir; an entry stored
\* after the first mkdir is still there after the second
C33_Witness ==
    /\ \A o \in Caches : initialized[o] = "resolved"
    /\ Cardinality({o \in Caches : ~dirSeen[o]}) >= 2
    /\ files[Key] # NoInode

\* ---------------------------------------------------------------------
\* The reconciler routing the messages of the response queue
\* ---------------------------------------------------------------------

QueuedCallIds == 1 .. NumQueuedCalls
NoEntry == [present |-> FALSE, deadline |-> 0, metrics |-> 0]

\* the deadline of a call, in timeouts of the provider
CallTimeout == 1

\* an informational message acts on the entry of a call that is pending
StillPendingAlways(entry) == TRUE
StillPending(entry) == entry.present

InitReconciler ==
    /\ pendingCalls = [id \in QueuedCallIds |-> NoEntry]
    /\ deferredResult = [id \in QueuedCallIds |-> "none"]
    /\ queueCounters = [completed |-> 0, errors |-> 0]
    /\ startSamples = 0
    /\ received = 0
    /\ ignored = 0


\* a call is enqueued: its PendingCall is registered
RegisterPendingCall(id) ==
    /\ deferredResult[id] = "none"
    /\ pendingCalls' = [pendingCalls EXCEPT
                           ![id] = [present |-> TRUE, deadline |-> CallTimeout,
                                    metrics |-> 0]]
    /\ deferredResult' = [deferredResult EXCEPT ![id] = "pending"]
    /\ UNCHANGED <<queueCounters, startSamples, received, ignored, notReconciler>>

\* response or deadletter: complete the future of a pending call, count
\* the outcome, remove the entry
RouteTerminal(id, isError) ==
    /\ deferredResult[id] # "none"
    /\ received < MaxMessages
    /\ received' = received + 1
    /\ IF pendingCalls[id].present
       THEN /\ deferredResult' = [deferredResult EXCEPT
                                     ![id] = IF isError THEN "rejected" ELSE "fulfilled"]
            /\ queueCounters' = [queueCounters EXCEPT
                                    ![IF isError THEN "errors" ELSE "completed"] = @ + 1]
            /\ pendingCalls' = [pendingCalls EXCEPT ![id] = NoEntry]
            /\ ignored' = ignored
       ELSE /\ ignored' = ignored + 1
            /\ UNCHANGED <<deferredResult, queueCounters, pendingCalls>>
    /\ UNCHANGED <<startSamples, notReconciler>>

\* functionstarted: record a remoteStartLatency sample if the call is still
\* pending and extend its deadline; do not complete
RouteFunctionStarted(id) ==
    /\ deferredResult[id] # "none"
    /\ received < MaxMessages
    /\ received' = received + 1
    /\ IF StillPending(pendingCalls[id])
       THEN /\ startSamples' = startSamples + 1
            /\ pendingCalls' = [pendingCalls EXCEPT ![id].deadline = @ + CallTimeout]
            /\ ignored' = ignored
       ELSE /\ ignored' = ignored + 1
            /\ UNCHANGED <<startSamples, pendingCalls>>
    /\ UNCHANGED <<deferredResult, queueCounters, notReconciler>>

\* cpumetrics: append to the metrics series of the call; do not complete
RouteCpuMetrics(id) ==
    /\ deferredResult[id] # "none"
    /\ received < MaxMessages
    /\ received' = received + 1
    /\ IF StillPending(pendingCalls[id])
       THEN /\ pendingCalls' = [pendingCalls EXCEPT ![id].metrics = @ + 1]
            /\ ignored' = ignored
       ELSE /\ ignored' = ignored + 1
            /\ pendingCalls' = pendingCalls
    /\ UNCHANGED <<deferredResult, queueCounters, startSamples, notReconciler>>

NextReconciler ==
    \/ \E id \in QueuedCallIds : RegisterPendingCall(id)
    \/ \E id \in QueuedCallIds, isError \in BOOLEAN : RouteTerminal(id, isError)
    \/ \E id \in QueuedCallIds : RouteFunctionStarted(id)
    \/ \E id \in QueuedCallIds : RouteCpuMetrics(id)

\* C34: a functionstarted or cpumetrics message settles no future and
\* removes no pending entry; when it arrives for a callId that is no longer
\* pending, no future, counter, statistic or deadline changes.
C34_InformationalMessagesDoNotComplete ==
    [][\A id \in QueuedCallIds :
          (RouteFunctionStarted(id) \/ RouteCpuMetrics(id)) =>
             /\ deferredResult' = deferredResult
             /\ \A i \in QueuedCallIds :
                   pendingCalls'[i].present = pendingCalls[i].present
             /\ ~pendingCalls[id].present =>
                   /\ queueCounters' = queueCounters
                   /\ startSamples' = startSamples
                   /\ pendingCalls' = pendingCalls]_vars

\* one call was completed by its response and a functionstarted or
\* cpumetrics message for it came afterwards; the other call is pending,
\* with a start sample recorded and its deadline extended
C34_Witness ==
    /\ deferredResult[1] = "fulfilled"
    /\ ignored = 1
    /\ received = 3
    /\ pendingCalls[2].present
    /\ pendingCalls[2].deadline > CallTimeout
    /\ startSamples = 1
    /\ queueCounters.completed = 1

\* C35: the retries counter counts the attempts that were re-issued: when
\* lambda.invoke fails and shouldRetry is consulted, retries goes up by one
\* exactly if the attempt is made again, and stays as it is if shouldRetry
\* declines.
C35_RetriesCountsReissuedAttempts ==
    [][\A c \in Calls :
          HttpsReject(c) =>
             functionCounters'.retries =
                functionCounters.retries
                   + (IF attempt'[c] = attempt[c] + 1 THEN 1 ELSE 0)]_vars

\* the step counts one outcome of fn under key, in the counters of fn, in
\* its aggregate and in the overall aggregate, and counts nothing else
C36_Counted(fn, key) ==
    \A k \in CounterKeys :
       /\ fcounters'.aggregate[k] =
             fcounters.aggregate[k] + (IF k = key THEN 1 ELSE 0)
       /\ \A g \in Fns :
             LET one == IF g = fn /\ k = key THEN 1 ELSE 0 IN
             /\ fcounters'.fAggregate[g][k] = fcounters.fAggregate[g][k] + one
             /\ fcounters'.fIncremental[g][k] = fcounters.fIncremental[g][k] + one

C36_Completes(fn) ==
    \/ ProcessUntimedResponse(fn, FALSE)
    \/ \E out, back \in {0, TimeUnit}, offset \in {-2 * TimeUnit, 0, 2 * TimeUnit} :
          ProcessTimedResponse(fn, FALSE, out, TimeUnit, TimeUnit, back, offset)

C36_Fails(fn) ==
    \/ ProcessUntimedResponse(fn, TRUE)
    \/ \E out, back \in {0, TimeUnit}, offset \in {-2 * TimeUnit, 0, 2 * TimeUnit} :
          ProcessTimedResponse(fn, TRUE, out, TimeUnit, TimeUnit, back, offset)
    \/ CallFunctionThrows(fn)

\* C36: every invocation changes the outcome counters once, at its end: a
\* response without error counts one completed, an error response or an
\* exception of callFunction counts one errors, each in the counters of the
\* function, in its aggregate and in the overall aggregate; so completed
\* and errors add up to the invocations that have ended, and no other step
\* changes them.
C36_OneOutcomeCountedPerInvocation ==
    /\ [](fcounters.aggregate.completed + fcounters.aggregate.errors = responses)
    /\ [](fcounters.aggregate.errors >= exceptions)
    /\ [][\A fn \in Fns :
             /\ C36_Completes(fn) => C36_Counted(fn, "completed")
             /\ C36_Fails(fn) => C36_Counted(fn, "errors")]_vars
    /\ [][(PrintStatistics \/ \E fn \in Fns : CountRetry(fn)) =>
             \A k \in {"completed", "errors"} :
                /\ fcounters'.aggregate[k] = fcounters.aggregate[k]
                /\ \A g \in Fns :
                      fcounters'.fAggregate[g][k] = fcounters.fAggregate[g][k]]_vars

\* three invocations have ended: one returned, one with an error response,
\* one with an exception of callFunction
C36_Witness ==
    /\ responses = 3
    /\ exceptions = 1
    /\ fcounters.aggregate.completed = 1
    /\ fcounters.aggregate.errors = 2
    /\ fcounters.fAggregate["g"].errors = 2

\* ---------------------------------------------------------------------
\* initialize: provisioning in parallel, and the cleanup when a step fails
\* ---------------------------------------------------------------------

\* the steps initialize starts at once, and the ones createQueueImpl starts
\* when the function has been created
FirstSteps == {"pricing", "createFunction"}
QueueSteps == {"createTopic", "subscribe", "createQueue"}
ProvisionSteps == FirstSteps \cup QueueSteps

\* the resource a step creates
Creates(step) ==
    CASE step = "createFunction" -> {"function"}
      [] step = "createTopic" -> {"topic"}
      [] step = "subscribe" -> {"subscription"}
      [] step = "createQueue" -> {"queue"}
      [] OTHER -> {}

\* the steps that start when a step has succeeded
Then(step, queue) ==
    CASE step = "createFunction" /\ queue -> {"createTopic", "createQueue"}
      [] step = "createTopic" -> {"subscribe"}
      [] OTHER -> {}

\* the steps initialize waits for
Awaited(queue) == IF queue THEN ProvisionSteps ELSE FirstSteps

\* deleteResources: the handles it was given, in the order it deletes them
DeleteOrder == <<"subscription", "function", "topic", "queue">>
ToDelete(handles) == SelectSeq(DeleteOrder, LAMBDA kind : kind \in handles)

InitProvision(queues) ==
    /\ useQueue \in queues
    /\ promises = [step \in ProvisionSteps |->
                      IF step \in FirstSteps THEN "running" ELSE "waiting"]
    /\ provisioned = {}
    /\ initResources = {"function"}
    /\ deleting = <<>>
    /\ initPc = "provisioning"


\* a step succeeds: its resource exists, its handle is recorded, and the
\* steps chained to it start, whether or not initialize is still waiting
StepSucceeds(step) ==
    /\ promises[step] = "running"
    /\ promises' = [other \in ProvisionSteps |->
                       IF other = step THEN "done"
                       ELSE IF other \in Then(step, useQueue) THEN "running"
                       ELSE promises[other]]
    /\ provisioned' = provisioned \cup Creates(step)
    /\ initResources' = initResources \cup Creates(step)
    /\ UNCHANGED <<useQueue, deleting, initPc, notProvision>>

\* a step fails: Promise.all rejects, and the catch of initialize calls
\* cleanup(state), whose deleteResources takes the handles recorded by now
StepFails(step) ==
    /\ promises[step] = "running"
    /\ promises' = [promises EXCEPT ![step] = "failed"]
    /\ IF initPc = "provisioning"
       THEN /\ initPc' = "cleanup"
            /\ deleting' = ToDelete(initResources)
       ELSE UNCHANGED <<initPc, deleting>>
    /\ UNCHANGED <<useQueue, provisioned, initResources, notProvision>>

\* every step has succeeded: initialize returns the state
InitializeResolves ==
    /\ initPc = "provisioning"
    /\ \A step \in Awaited(useQueue) : promises[step] = "done"
    /\ initPc' = "resolved"
    /\ UNCHANGED <<useQueue, promises, provisioned, initResources, deleting, notProvision>>

\* deleteResources deletes the next handle, quietly if there is no such
\* resource
DeleteNext ==
    /\ initPc = "cleanup"
    /\ deleting # <<>>
    /\ provisioned' = provisioned \ {Head(deleting)}
    /\ deleting' = Tail(deleting)
    /\ UNCHANGED <<useQueue, promises, initResources, initPc, notProvision>>

\* cleanup is over: initialize throws the error
InitializeRejects ==
    /\ initPc = "cleanup"
    /\ deleting = <<>>
    /\ initPc' = "rejected"
    /\ UNCHANGED <<useQueue, promises, provisioned, initResources, deleting, notProvision>>

NextProvision ==
    \/ \E step \in ProvisionSteps : StepSucceeds(step)
    \/ \E step \in ProvisionSteps : StepFails(step)
    \/ InitializeResolves
    \/ DeleteNext
    \/ InitializeRejects

\* C37: if a provisioning step fails, initialize rejects, and once the
\* steps it started have all settled no resource it created remains.
C37_NothingLeftAfterFailedInitialize ==
    /\ [](initPc = "rejected" /\ (\A step \in ProvisionSteps : promises[step] # "running")
             => provisioned = {})
    /\ [](initPc = "resolved" => \A step \in ProvisionSteps : promises[step] # "failed")

\* C38: at most one polling loop (outputLogs) of an instance is active at
\* any time, whatever setLogger(logger), setLogger(undefined) and stop are
\* called.
C38_AtMostOneLoop ==
    Cardinality({l \in Loops : loopPc[l] # "off"}) <= 1

\* ---------------------------------------------------------------------
\* ModuleWrapper.execute with useChildProcess
\* ---------------------------------------------------------------------

Executions == 1 .. NumExecutions
NoExecution == 0

\* the (code, signal) of the exit event: a code and no signal, or no code
\* and the signal that ended the child
ExitEvents ==
    {[code |-> "0", signal |-> "null"], [code |-> "1", signal |-> "null"],
     [code |-> "null", signal |-> "SIGKILL"]}

\* if (code), else if (signal)
Truthy(v) == v \notin {"0", "null"}
ExitRejects(e) == Truthy(e.code) \/ Truthy(e.signal)

\* Deferred.reject on a promise
Reject(state) == IF state = "pending" THEN "rejected" ELSE state

InitWrapper ==
    /\ child = "none"
    /\ deferred = NoExecution
    /\ promise = [x \in Executions |-> "none"]
    /\ exited = [x \in Executions |-> "none"]
    /\ crashed = FALSE

InitRestIdle ==
    /\ InitCopyIdle /\ InitConstruct /\ InitReconciler /\ InitProvision({FALSE})
    /\ InitWrapper

\* execute(callingContext): a new Deferred, the child forked if there is
\* none, the call sent to it; no execution of a live child is in progress
Execute(x) ==
    /\ ~crashed
    /\ promise[x] = "none"
    /\ \A y \in Executions : y < x => promise[y] # "none"
    /\ ~(child = "running" /\ deferred # NoExecution /\ promise[deferred] = "pending")
    /\ deferred' = x
    /\ child' = "running"
    /\ promise' = [promise EXCEPT ![x] = "pending"]
    /\ UNCHANGED <<exited, crashed, notWrapper>>

\* the child sends the return message: the Deferred is resolved, and
\* this.deferred is cleared
ChildMessage ==
    /\ ~crashed
    /\ child = "running"
    /\ deferred # NoExecution
    /\ promise[deferred] = "pending"
    /\ promise' = [promise EXCEPT ![deferred] = "resolved"]
    /\ deferred' = NoExecution
    /\ UNCHANGED <<child, exited, crashed, notWrapper>>

\* the child's "error" event
ChildError ==
    /\ ~crashed
    /\ child = "running"
    /\ child' = "none"
    /\ IF deferred = NoExecution
       THEN crashed' = TRUE /\ UNCHANGED <<promise, exited>>
       ELSE /\ promise' = [promise EXCEPT ![deferred] = Reject(@)]
            /\ exited' = [exited EXCEPT
                             ![deferred] = IF promise[deferred] = "pending"
                                           THEN "error" ELSE @]
            /\ crashed' = crashed
    /\ UNCHANGED <<deferred, notWrapper>>

\* the child's "exit" event
ChildExit(e) ==
    /\ ~crashed
    /\ child = "running"
    /\ child' = "none"
    /\ IF ~ExitRejects(e)
       THEN /\ exited' = [x \in Executions |->
                             IF x = deferred /\ promise[x] = "pending"
                             THEN "exit" ELSE exited[x]]
            /\ UNCHANGED <<promise, crashed>>
       ELSE IF deferred = NoExecution
       THEN crashed' = TRUE /\ UNCHANGED <<promise, exited>>
       ELSE /\ promise' = [promise EXCEPT ![deferred] = Reject(@)]
            /\ exited' = [exited EXCEPT
                             ![deferred] = IF promise[deferred] = "pending"
                                           THEN "exit" ELSE @]
            /\ crashed' = crashed
    /\ UNCHANGED <<deferred, notWrapper>>

NextWrapper ==
    \/ \E x \in Executions : Execute(x)
    \/ ChildMessage
    \/ ChildError
    \/ \E e \in ExitEvents : ChildExit(e)

\* C39: when the child exits or errors before it has sent the return
\* message of an execution, the promise execute returned is rejected,
\* whatever the exit code and the signal are; it does not stay pending.
C39_ExitSettlesExecute ==
    \A x \in Executions : exited[x] # "none" => promise[x] = "rejected"

\* C40: when the garbage collector has failed, cleanup still deletes the
\* resources of the instance and settles only when that deletion is over.
C40_CleanupSettlesAfterDeletion ==
    (gcPc = "rejected" /\ cleanupPc \in {"returned", "rejected"}) =>
       deletePc = "done"

NextLogs ==
    \/ \E defined \in BOOLEAN : SetLogger(defined)
    \/ \E l \in Loops, events \in SUBSET Events, nextToken \in BOOLEAN :
          ReadLogsPage(l, events, nextToken)
    \/ \E l \in Loops : ReadLogsError(l)
    \/ \E l \in Loops : OutputLogsWake(l)

NextCache ==
    \/ Tick
    \/ \E w \in Writers : SetOpen(w)
    \/ \E w \in Writers : SetWrite(w)
    \/ \E w \in Writers : SetRename(w)
    \/ \E r \in Readers : GetStart(r)
    \/ \E r \in Readers : GetStat(r)
    \/ \E r \in Readers : GetOpen(r)
    \/ \E r \in Readers : GetRead(r)
    \/ \E leaveEmptyDir \in BOOLEAN : Clear(leaveEmptyDir)

\* The cache on its own: the other components rest in their initial state.
CacheInit ==
    /\ InitCache
    /\ InitLogs
    /\ InitEngine("https") /\ InitPollers(MinPollers)
    /\ InitErrors({NoError})
    /\ InitCloud("https", FALSE)
    /\ InitGc(FALSE)
    /\ InitScanIdle /\ InitStats /\ InitOneFunnel({0}) /\ InitRestIdle

SpecCache == CacheInit /\ [][NextCache]_vars

\* The log follower on its own.
LogsInit ==
    /\ InitCacheIdle
    /\ InitLogs
    /\ InitEngine("https") /\ InitPollers(MinPollers)
    /\ InitErrors({NoError})
    /\ InitCloud("https", FALSE)
    /\ InitGc(FALSE)
    /\ InitScanIdle /\ InitStats /\ InitOneFunnel({0}) /\ InitRestIdle

SpecLogs == LogsInit /\ [][NextLogs]_vars

\* The invocation engine on its own, in either mode.
EngineInit ==
    /\ InitCacheIdle
    /\ InitLogs
    /\ \E m \in {"https", "queue"} :
          InitEngine(m) /\ InitPollers(MinPollers) /\ InitCloud(m, TRUE)
    /\ InitGc(FALSE)
    /\ InitErrors({NoError})
    /\ InitScanIdle /\ InitStats /\ InitOneFunnel({0}) /\ InitRestIdle

Spec == EngineInit /\ [][NextEngine]_vars

\* The round trip of an error of the remote function.
ErrorsInit ==
    /\ InitCacheIdle
    /\ InitLogs
    /\ InitEngine("https") /\ InitPollers(MinPollers)
    /\ InitCloud("https", FALSE)
    /\ InitGc(FALSE)
    /\ InitErrors(ErrorObjects)
    /\ InitScanIdle /\ InitStats /\ InitOneFunnel({0}) /\ InitRestIdle

SpecErrors == ErrorsInit /\ [][NextErrors]_vars

\* the life of an instance from initialize to cleanup, and the garbage
\* collector of the process
LifecycleInit ==
    /\ InitCacheIdle
    /\ InitLogs
    /\ \E m \in {"https", "queue"}, packaged \in BOOLEAN,
          n \in MinPollers .. MaxPollers :
          InitEngine(m) /\ InitPollers(n) /\ InitCloud(m, packaged)
    /\ \E isFirst \in BOOLEAN : InitGc(isFirst)
    /\ InitErrors({NoError})
    /\ InitScanIdle /\ InitStats /\ InitOneFunnel({0}) /\ InitRestIdle

SpecLifecycle == LifecycleInit /\ [][NextLifecycle]_vars

\* the same, with poll fibers that keep polling
SpecLifecycleFair == SpecLifecycle /\ WF_vars(ReconcilerStop)

\* collectGarbageForLogGroups on one log group, for every age and state of
\* the log group and every retentionInDays of the collecting instance
ScanInit ==
    /\ InitCacheIdle
    /\ InitLogs
    /\ InitEngine("https") /\ InitPollers(MinPollers)
    /\ InitCloud("https", FALSE)
    /\ InitGc(FALSE)
    /\ InitErrors({NoError})
    /\ InitScan(LogGroups, 0 .. MaxRetention)
    /\ InitStats
    /\ InitOneFunnel({0}) /\ InitRestIdle

SpecScan == ScanInit /\ [][NextScan]_vars

\* The counters, the statistics and the skew of a CloudFunction.
StatsInit ==
    /\ InitCacheIdle
    /\ InitLogs
    /\ InitEngine("https") /\ InitPollers(MinPollers)
    /\ InitCloud("https", FALSE)
    /\ InitGc(FALSE)
    /\ InitErrors({NoError})
    /\ InitScanIdle
    /\ InitStats
    /\ InitOneFunnel({0}) /\ InitRestIdle

SpecStats == StatsInit /\ [][NextStats]_vars

\* A Funnel on its own, created with any limit.
OneFunnelInit ==
    /\ InitCacheIdle
    /\ InitLogs
    /\ InitEngine("https") /\ InitPollers(MinPollers)
    /\ InitCloud("https", FALSE)
    /\ InitGc(FALSE)
    /\ InitErrors({NoError})
    /\ InitScanIdle
    /\ InitStats
    /\ InitOneFunnel(0 .. MaxFunnelConcurrency)
    /\ InitRestIdle

SpecFunnel == OneFunnelInit /\ [][NextOneFunnel]_vars

\* deepCopyUndefined applied to a pair of object graphs; a call that has
\* started runs on.
CopyInit ==
    /\ InitCacheIdle
    /\ InitLogs
    /\ InitEngine("https") /\ InitPollers(MinPollers)
    /\ InitCloud("https", FALSE)
    /\ InitGc(FALSE)
    /\ InitErrors({NoError})
    /\ InitScanIdle
    /\ InitStats
    /\ InitOneFunnel({0})
    /\ InitConstruct /\ InitReconciler /\ InitProvision({FALSE})
    /\ InitWrapper
    /\ InitCopy([Nodes -> [KeySet -> SourceValues]], [Nodes -> [KeySet -> DestValues]])

SpecCopy == CopyInit /\ [][NextCopy]_vars /\ WF_vars(NextCopy)

\* PersistentCache objects constructed for a directory that is there, with
\* or without the entry, or is not there yet.
ConstructInit ==
    /\ \E dir \in BOOLEAN, present \in BOOLEAN, m \in 0 .. Expiration :
          /\ present => dir
          /\ CacheDirAt(dir, present, m)
    /\ InitLogs
    /\ InitEngine("https") /\ InitPollers(MinPollers)
    /\ InitCloud("https", FALSE)
    /\ InitGc(FALSE)
    /\ InitErrors({NoError})
    /\ InitScanIdle
    /\ InitStats
    /\ InitOneFunnel({0})
    /\ InitCopyIdle
    /\ InitConstruct
    /\ InitReconciler
    /\ InitProvision({FALSE})
    /\ InitWrapper

SpecConstruct == ConstructInit /\ [][NextConstruct]_vars

\* The reconciler routing the messages of two calls.
ReconcilerInit ==
    /\ InitCacheIdle
    /\ InitLogs
    /\ InitEngine("https") /\ InitPollers(MinPollers)
    /\ InitCloud("https", FALSE)
    /\ InitGc(FALSE)
    /\ InitErrors({NoError})
    /\ InitScanIdle
    /\ InitStats
    /\ InitOneFunnel({0})
    /\ InitCopyIdle
    /\ InitConstruct
    /\ InitReconciler
    /\ InitProvision({FALSE})
    /\ InitWrapper

SpecReconciler == ReconcilerInit /\ [][NextReconciler]_vars

\* initialize provisioning its resources, with or without a queue.
ProvisionInit ==
    /\ InitCacheIdle
    /\ InitLogs
    /\ InitEngine("https") /\ InitPollers(MinPollers)
    /\ InitCloud("https", FALSE)
    /\ InitGc(FALSE)
    /\ InitErrors({NoError})
    /\ InitScanIdle
    /\ InitStats
    /\ InitOneFunnel({0})
    /\ InitCopyIdle
    /\ InitConstruct
    /\ InitReconciler
    /\ InitProvision(BOOLEAN)
    /\ InitWrapper

SpecProvision == ProvisionInit /\ [][NextProvision]_vars

\* A ModuleWrapper that runs its calls in a child process.
WrapperInit ==
    /\ InitCacheIdle
    /\ InitLogs
    /\ InitEngine("https") /\ InitPollers(MinPollers)
    /\ InitCloud("https", FALSE)
    /\ InitGc(FALSE)
    /\ InitErrors({NoError})
    /\ InitScanIdle
    /\ InitStats
    /\ InitOneFunnel({0})
    /\ InitCopyIdle
    /\ InitConstruct
    /\ InitReconciler
    /\ InitProvision({FALSE})
    /\ InitWrapper

SpecWrapper == WrapperInit /\ [][NextWrapper]_vars

====
